---- MODULE Spec2Model ----
(***************************************************************************)
(* Alatem health alert backend: the outbreak forecasting pipeline of       *)
(* backend/app.py and backend/ml_models.py (Risk Predictor, Prediction     *)
(* Orchestrator, prediction store, auto-alerts).                           *)
(*                                                                         *)
(* Fixed-point conventions: outbreak_probability is held in hundredths     *)
(* (0..100 for 0.00..1.00; a forest of n_estimators=100 trees votes in     *)
(* hundredths), the regressor output in halves (so that int() truncation   *)
(* is visible), dates as day numbers.                                      *)
(***************************************************************************)
EXTENDS Integers, Sequences, FiniteSets, TLC

VARIABLES
    phase,                  \* "boot" before load_ml_models() of __main__, then "serving"
    ml_models_dir,          \* the five artifact files under ml_models/
    health_predictor,       \* the global HealthOutbreakPredictor of app.py
    health_reports,         \* health_reports.json, per (area, condition)
    predictions,            \* predictions.json: the list of prediction records
    sent_alerts,            \* sent_alerts.json: the list of alert records
    users,                  \* users.json
    twilio_client,          \* TRUE when Twilio is configured
    scheduler_alive,        \* the daemon thread running schedule_predictions()
    today,                  \* calendar day of datetime.now()
    clock,                  \* datetime.utcnow(), one tick per step
    high_risk_predictions,  \* the trigger list built by the handler that ran last
    sms_sent,               \* the SMS handed to Twilio by the handler that ran last
    last,                   \* what the handler that ran last was, met and answered
    env_fault,              \* the failures the environment currently causes
    outbreak_prob,          \* classifier output under test (SpecRisk)
    regressor_out,          \* regressor output under test (SpecRisk)
    point,                  \* the PredictionPoint built from them (SpecRisk)
    calls,                  \* the calls of predict_outbreak_risk made so far (SpecPredict)
    artifact_files,         \* ml_models/*.pkl, file by file (SpecTrain)
    trainer,                \* the process running train_all_models() (SpecTrain)
    loader,                 \* the process running load_ml_models() (SpecTrain)
    health_df,              \* the frame given to prepare_features (SpecFeatures)
    features_df,            \* the frame it returns (SpecFeatures)
    otp_store,              \* the global otp_store of app.py (SpecUsers)
    broadcast,              \* the request running an area alert (SpecUsers)
    auth_otp_store,         \* AuthService.otp_store of auth.py (SpecAuth)
    auth_log,               \* what the calls of AuthService.verify_otp returned (SpecAuth)
    writers                 \* the threads inside save_prediction (SpecStore)

vars == <<phase, ml_models_dir, health_predictor, health_reports, predictions,
          sent_alerts, users, twilio_client, scheduler_alive, today, clock,
          high_risk_predictions, sms_sent, last, env_fault, outbreak_prob,
          regressor_out, point, calls, artifact_files, trainer, loader,
          health_df, features_df, otp_store, broadcast, auth_otp_store,
          auth_log, writers>>

(***************************************************************************)
(* Bounds.                                                                 *)
(***************************************************************************)
MaxClock == 5        \* steps per behaviour
days_ahead == 2      \* forecast horizon passed by the callers (7 in the source)
MaxRaw == 6          \* |regressor output| in halves (SpecRisk)
MaxCalls == 2        \* calls of predict_outbreak_risk per behaviour (SpecPredict)
MaxRuns == 2         \* runs of train_all_models, and of load_ml_models (SpecTrain)
MaxRows == 15        \* rows of the largest group of a frame (SpecFeatures)
MaxIssues == 2       \* calls of store_otp (SpecAuth); /register requests and alerts (SpecUsers)
MaxTime == 2         \* ticks of datetime.now() (SpecAuth, SpecUsers)

(***************************************************************************)
(* Program constants.                                                      *)
(***************************************************************************)
HIGH_THRESHOLD == 70      \* outbreak_prob > 0.7
MEDIUM_THRESHOLD == 40    \* outbreak_prob > 0.4
LAG_7 == 7                \* group['cases'].shift(7)
LAG_14 == 14              \* group['cases'].shift(14)
ROLLING_WINDOW == 7       \* rolling(window=7, ...)
MIN_PERIODS == 1          \* rolling(..., min_periods=1)
MEAN_UNIT == 420          \* means are held in 420ths: 420 = lcm(1..7)

\* two of the eight areas and two of the five conditions, in source order
areas == <<"DELMAS", "TABARRE">>
conditions == <<"cholera", "fever">>

Range(s) == {s[i] : i \in 1..Len(s)}

Max(a, b) == IF a >= b THEN a ELSE b

RECURSIVE SumSeq(_)
SumSeq(s) == IF s = <<>> THEN 0 ELSE Head(s) + SumSeq(Tail(s))

\* s[-n:] of Python
LastN(s, n) == IF Len(s) <= n THEN s ELSE SubSeq(s, Len(s) - n + 1, Len(s))

RECURSIVE Flatten(_)
Flatten(ss) == IF ss = <<>> THEN <<>> ELSE Head(ss) \o Flatten(Tail(ss))

\* the (area, condition) pairs in the order of the nested for loops
Pairs ==
    Flatten([i \in 1..Len(areas) |->
               [j \in 1..Len(conditions) |->
                  [area |-> areas[i], condition |-> conditions[j]]]])

PairSet == Range(Pairs)

(***************************************************************************)
(* Risk Predictor: HealthOutbreakPredictor.predict_outbreak_risk           *)
(***************************************************************************)
\* the thresholds taken inclusive
RiskLevel_Inclusive(p) ==
    IF p >= HIGH_THRESHOLD THEN "HIGH"
    ELSE IF p >= MEDIUM_THRESHOLD THEN "MEDIUM"
    ELSE "LOW"

\* 'HIGH' if outbreak_prob > 0.7 else 'MEDIUM' if outbreak_prob > 0.4 else 'LOW'
RiskLevel(p) ==
    IF p > HIGH_THRESHOLD THEN "HIGH"
    ELSE IF p > MEDIUM_THRESHOLD THEN "MEDIUM"
    ELSE "LOW"

\* the clamp at 0 left out
PredictedCases_NoClamp(r) == r \div 2

\* int(max(0, regressor.predict(..)[0])), the output r given in halves;
\* int() truncates toward zero
PredictedCases(r) == Max(0, r) \div 2

MakePoint(date, p, r) ==
    [date |-> date,
     outbreak_probability |-> p,
     predicted_cases |-> PredictedCases(r),
     risk_level |-> RiskLevel(p)]

\* an unseen label given the id 0 instead of the ValueError
Transform_Dummy(classes, v) ==
    IF \E i \in 1..Len(classes) : classes[i] = v
    THEN (CHOOSE i \in 1..Len(classes) : classes[i] = v) - 1
    ELSE 0

\* LabelEncoder.transform([v])[0]: the index of v in the sorted classes_,
\* -1 standing for the ValueError of an unseen label
Transform(classes, v) ==
    IF \E i \in 1..Len(classes) : classes[i] = v
    THEN (CHOOSE i \in 1..Len(classes) : classes[i] = v) - 1
    ELSE -1

\* outbreak_classifier.predict_proba(X)[0][1] of one fitted forest: a fixed
\* function of the feature vector, here of the encoded ids, the calendar day
\* and cases_lag_7; two of three successive days of a pair with recent cases
\* are HIGH
predict_proba(area_encoded, condition_encoded, date, lag7) ==
    IF lag7 > 0
    THEN HIGH_THRESHOLD + ((area_encoded + condition_encoded + date) % 3)
    ELSE MEDIUM_THRESHOLD + ((area_encoded + condition_encoded + date) % 2)

\* cases_regressor.predict(X)[0] of one fitted forest, in halves
regressor_predict(area_encoded, condition_encoded, date, lag7) ==
    IF lag7 > 0
    THEN 3 + ((area_encoded + date) % 2)
    ELSE ((condition_encoded + date) % 2) - 3

\* dataset/haiti_areas.json, opened in every iteration of the loop: missing
\* (FileNotFoundError is caught and the defaults are used) or present with an
\* entry for each modelled area
AreasInfoFiles == {"missing", "present"}

\* area_info.get('risk_factor', 0.5), in tenths
risk_factor(areas_info, area) ==
    IF areas_info = "present" /\ area \in Range(areas) THEN 8 ELSE 5

\* a forest that draws from a random source at every call
predict_proba_rf_Noisy(area_encoded, condition_encoded, date, lag7, rf, draw) ==
    predict_proba(area_encoded, condition_encoded, date, lag7)
        + (IF rf > 5 THEN 10 ELSE 0) + draw

\* predict_proba of the same forest on a row whose risk_factor feature is rf
\* (rf = 5 is the row built without the file); draw is what a random source
\* would give at this call: a fitted forest consults none
predict_proba_rf(area_encoded, condition_encoded, date, lag7, rf, draw) ==
    predict_proba(area_encoded, condition_encoded, date, lag7)
        + (IF rf > 5 THEN 10 ELSE 0)

\* the for loop of predict_outbreak_risk, lines 153-205. env is what the
\* iterations read from outside the arguments: env.nows[day] is the calendar
\* day datetime.now() gives in iteration `day`, env.areas_info the state of
\* dataset/haiti_areas.json, env.draw what a random source would give. An
\* iteration whose labels the encoders do not know ends with `continue`.
RECURSIVE predict_loop(_, _, _, _, _, _, _)
predict_loop(day, acc, hp, area, condition, historical_data, env) ==
    IF day > days_ahead THEN acc
    ELSE LET future_date == env.nows[day] + day
             rf == risk_factor(env.areas_info, area)
             area_encoded == Transform(hp.label_encoders.area, area)
             condition_encoded == Transform(hp.label_encoders.condition, condition)
             lag7 == historical_data.recent_cases_7d
         IN  predict_loop(day + 1,
                 IF area_encoded = -1 \/ condition_encoded = -1 THEN acc
                 ELSE Append(acc,
                        MakePoint(future_date,
                            predict_proba_rf(area_encoded, condition_encoded,
                                             future_date, lag7, rf, env.draw),
                            regressor_predict(area_encoded, condition_encoded,
                                              future_date, lag7))),
                 hp, area, condition, historical_data, env)

\* predict_outbreak_risk(area, condition, historical_data, days_ahead) with
\* the clock and file reads of its iterations given by env
predict_outbreak_risk_at(hp, area, condition, historical_data, env) ==
    IF ~hp.is_trained THEN [kind |-> "None", points |-> <<>>]
    ELSE IF hp.feature_cols = <<>> THEN [kind |-> "None", points |-> <<>>]
    ELSE [kind |-> "list",
          points |-> predict_loop(1, <<>>, hp, area, condition, historical_data, env)]

\* predict_outbreak_risk(area, condition, historical_data, days_ahead) called
\* on day `now`, every iteration within that day and without the areas file; fails = TRUE stands for an exception raised inside the call
\* (scaler.transform, predict_proba). The result is None, or the list of
\* points: a day whose labels the encoders do not know is skipped by
\* `continue`, so an unknown area or condition gives the empty list.
predict_outbreak_risk(hp, area, condition, historical_data, now, fails) ==
    IF ~hp.is_trained THEN [kind |-> "None", points |-> <<>>]
    ELSE IF hp.feature_cols = <<>> THEN [kind |-> "None", points |-> <<>>]
    ELSE IF fails THEN [kind |-> "raise", points |-> <<>>]
    ELSE LET area_encoded == Transform(hp.label_encoders.area, area)
             condition_encoded == Transform(hp.label_encoders.condition, condition)
             lag7 == historical_data.recent_cases_7d
             day_point(day) ==
                 MakePoint(now + day,
                           predict_proba(area_encoded, condition_encoded, now + day, lag7),
                           regressor_predict(area_encoded, condition_encoded, now + day, lag7))
         IN  IF area_encoded = -1 \/ condition_encoded = -1
             THEN [kind |-> "list", points |-> <<>>]
             ELSE [kind |-> "list", points |-> [day \in 1..days_ahead |-> day_point(day)]]

(***************************************************************************)
(* Feature Builder: HealthOutbreakPredictor.prepare_features               *)
(* A frame is a sequence of rows [area, condition, date, cases].           *)
(***************************************************************************)
\* LabelEncoder.fit: classes_ is the sorted list of the distinct labels;
\* universe lists the possible labels in sorted order
fit(universe, column) == SelectSeq(universe, LAMBDA v : v \in Range(column))

\* the order of sort_values(by): by the three keys
\* ['area_encoded', 'condition_encoded', 'date'], or by 'date'
Less(by, r, q) ==
    IF by = "date" THEN r.date < q.date
    ELSE \/ r.area_encoded < q.area_encoded
         \/ r.area_encoded = q.area_encoded /\ r.condition_encoded < q.condition_encoded
         \/ /\ r.area_encoded = q.area_encoded
            /\ r.condition_encoded = q.condition_encoded
            /\ r.date < q.date

\* insert row r into the sorted sequence s after every row not greater than
\* it: the step of a stable sort
RECURSIVE InsertSorted(_, _, _)
InsertSorted(s, r, by) ==
    IF s = <<>> THEN <<r>>
    ELSE IF Less(by, r, Head(s)) THEN <<r>> \o s
    ELSE <<Head(s)>> \o InsertSorted(Tail(s), r, by)

\* DataFrame.sort_values(by).reset_index(drop=True): rows that compare
\* equal keep their order (lexsort for several keys; for one key the
\* insertion sort numpy uses on a short array)
RECURSIVE sort_values(_, _)
sort_values(s, by) ==
    IF s = <<>> THEN <<>>
    ELSE InsertSorted(sort_values(SubSeq(s, 1, Len(s) - 1), by), s[Len(s)], by)

\* the shift one row short
shift_Short(cases, n) ==
    [i \in 1..Len(cases) |-> IF i > n - 1 THEN cases[i - n + 1] ELSE 0]

\* Series.shift(n) followed by fillna(0): the value n rows up, 0 for the
\* first n rows
shift(cases, n) == [i \in 1..Len(cases) |-> IF i > n THEN cases[i - n] ELSE 0]

\* the mean of every row up to row i, not of a window
rolling_mean_Expanding(cases, window, min_periods) ==
    [i \in 1..Len(cases) |->
        IF i < min_periods THEN 0
        ELSE (SumSeq(SubSeq(cases, 1, i)) * MEAN_UNIT) \div i]

\* Series.rolling(window, min_periods).mean() followed by fillna(0), in
\* MEAN_UNITs: the mean of the window of rows that ends with row i
rolling_mean(cases, window, min_periods) ==
    [i \in 1..Len(cases) |->
        LET from == Max(1, i - window + 1)
            n == i - from + 1
        IN  IF n < min_periods THEN 0
            ELSE (SumSeq(SubSeq(cases, from, i)) * MEAN_UNIT) \div n]

\* the body of the groupby loop for one group, lines 52-55
lag_rolling(group) ==
    LET sorted == sort_values(group, "date")
        cases == [i \in 1..Len(sorted) |-> sorted[i].cases]
        lag7 == shift(cases, LAG_7)
        lag14 == shift(cases, LAG_14)
        rolling == rolling_mean(cases, ROLLING_WINDOW, MIN_PERIODS)
    IN  [i \in 1..Len(sorted) |->
           [area |-> sorted[i].area, condition |-> sorted[i].condition,
            date |-> sorted[i].date, cases |-> sorted[i].cases,
            area_encoded |-> sorted[i].area_encoded,
            condition_encoded |-> sorted[i].condition_encoded,
            cases_lag_7 |-> lag7[i], cases_lag_14 |-> lag14[i],
            cases_rolling_7 |-> rolling[i]]]

\* the keys of features_df.groupby(['area_encoded', 'condition_encoded']),
\* in the sorted order in which groupby yields them
GroupKeys(frame, encoders) ==
    Flatten([a \in 1..Len(encoders.area) |->
               SelectSeq([c \in 1..Len(encoders.condition) |->
                            [area_encoded |-> a - 1, condition_encoded |-> c - 1]],
                         LAMBDA k : \E i \in 1..Len(frame) :
                                       /\ frame[i].area_encoded = k.area_encoded
                                       /\ frame[i].condition_encoded = k.condition_encoded)])

\* lags and means taken over the whole sorted frame, the groups ignored
prepare_features_NoGroup(df) ==
    LET encoders == [area |-> fit(areas, [i \in 1..Len(df) |-> df[i].area]),
                     condition |-> fit(conditions, [i \in 1..Len(df) |-> df[i].condition])]
        encoded == [i \in 1..Len(df) |->
                      [area |-> df[i].area, condition |-> df[i].condition,
                       date |-> df[i].date, cases |-> df[i].cases,
                       area_encoded |-> Transform(encoders.area, df[i].area),
                       condition_encoded |-> Transform(encoders.condition, df[i].condition)]]
        features_sorted == sort_values(encoded, "keys")
        cases == [i \in 1..Len(features_sorted) |-> features_sorted[i].cases]
        lag7 == shift(cases, LAG_7)
        lag14 == shift(cases, LAG_14)
        rolling == rolling_mean(cases, ROLLING_WINDOW, MIN_PERIODS)
    IN  IF df = <<>>
        THEN [raised |-> TRUE, label_encoders |-> encoders, rows |-> <<>>]
        ELSE [raised |-> FALSE, label_encoders |-> encoders,
              rows |-> [i \in 1..Len(features_sorted) |->
                          [area |-> features_sorted[i].area,
                           condition |-> features_sorted[i].condition,
                           date |-> features_sorted[i].date,
                           cases |-> features_sorted[i].cases,
                           area_encoded |-> features_sorted[i].area_encoded,
                           condition_encoded |-> features_sorted[i].condition_encoded,
                           cases_lag_7 |-> lag7[i], cases_lag_14 |-> lag14[i],
                           cases_rolling_7 |-> rolling[i]]]]

\* prepare_features(df) of a predictor whose label_encoders is still empty
\* (the first call, made by train): [raised, label_encoders, rows].
\* pd.concat of an empty list of groups raises ValueError.
prepare_features(df) ==
    LET encoders == [area |-> fit(areas, [i \in 1..Len(df) |-> df[i].area]),
                     condition |-> fit(conditions, [i \in 1..Len(df) |-> df[i].condition])]
        encoded == [i \in 1..Len(df) |->
                      [area |-> df[i].area, condition |-> df[i].condition,
                       date |-> df[i].date, cases |-> df[i].cases,
                       area_encoded |-> Transform(encoders.area, df[i].area),
                       condition_encoded |-> Transform(encoders.condition, df[i].condition)]]
        features_sorted == sort_values(encoded, "keys")
        keys == GroupKeys(features_sorted, encoders)
        lag_rolling_features ==
            [g \in 1..Len(keys) |->
               lag_rolling(SelectSeq(features_sorted,
                   LAMBDA r : /\ r.area_encoded = keys[g].area_encoded
                              /\ r.condition_encoded = keys[g].condition_encoded))]
    IN  IF lag_rolling_features = <<>>
        THEN [raised |-> TRUE, label_encoders |-> encoders, rows |-> <<>>]
        ELSE [raised |-> FALSE, label_encoders |-> encoders,
              rows |-> Flatten(lag_rolling_features)]

(***************************************************************************)
(* Storage: DatabaseManager of app.py, JSON-file backend                   *)
(***************************************************************************)
\* app.py DatabaseManager.save_prediction: drop the records with the same
\* area, date and type, then append
save_prediction(store, prediction_data) ==
    SelectSeq(store, LAMBDA p : ~(p.area = prediction_data.area
                                  /\ p.date = prediction_data.date
                                  /\ p.type = prediction_data.type))
      \o <<prediction_data>>

\* database.py DatabaseManager.save_prediction: the key also has the condition
db_save_prediction(store, prediction_data) ==
    SelectSeq(store, LAMBDA p : ~(p.area = prediction_data.area
                                  /\ p.date = prediction_data.date
                                  /\ p.type = prediction_data.type
                                  /\ p.condition = prediction_data.condition))
      \o <<prediction_data>>

\* DatabaseManager.get_recent_health_reports: the reports of one pair (every
\* report of the model is younger than the 30 days of since_date)
get_recent_health_reports(reports, area, condition) ==
    SelectSeq(reports, LAMBDA r : r.area = area /\ r.condition = condition)

\* get_historical_health_data; avg_cases_7d is total_cases_7d / 7, kept in
\* sevenths
get_historical_health_data(reports, area, condition) ==
    LET recent_reports == get_recent_health_reports(reports, area, condition)
        cases == [i \in 1..Len(recent_reports) |-> recent_reports[i].cases]
    IN  [recent_cases_7d |-> SumSeq(LastN(cases, 7)),
         recent_cases_14d |-> SumSeq(LastN(cases, 14)),
         avg_cases_7d |-> SumSeq(LastN(cases, 7))]

\* the verified flag not looked at
\* get_users_by_area without the filter on the area
get_users_by_area_AnyArea(us, area, verified_only) ==
    SelectSeq(us, LAMBDA u : u.active /\ (~verified_only \/ u.verified))

get_users_by_area_AnyUser(us, area, verified_only) ==
    SelectSeq(us, LAMBDA u : u.area = area /\ u.active)

\* DatabaseManager.get_users_by_area(area, verified_only)
get_users_by_area(us, area, verified_only) ==
    SelectSeq(us, LAMBDA u : u.area = area /\ u.active
                             /\ (~verified_only \/ u.verified))

(***************************************************************************)
(* Prediction Orchestrator                                                 *)
(***************************************************************************)
\* what can go wrong for one pair
FailKinds == {"predict", "save_raises", "write_rejected"}

\* nothing fails
NoFault == [failed |-> {}, kind |-> "none"]

\* the pairs that fail, and how
Faults ==
    {[failed |-> f, kind |-> k] :
        f \in (SUBSET PairSet) \ {{}},
        k \in FailKinds}

Hits(fault, pair, kind) == pair \in fault.failed /\ fault.kind = kind

prediction_record(pair, points, now, ts, by) ==
    [area |-> pair.area, condition |-> pair.condition, type |-> "health",
     date |-> now, predictions |-> points, timestamp |-> ts, generated_by |-> by]

\* MEDIUM points taken for triggers too
HighRiskOf_Medium(pair, points) ==
    LET high == SelectSeq(points, LAMBDA pt : pt.risk_level # "LOW")
    IN  [i \in 1..Len(high) |->
           [area |-> pair.area, condition |-> pair.condition,
            date |-> high[i].date,
            probability |-> high[i].outbreak_probability,
            predicted_cases |-> high[i].predicted_cases]]

\* the entries one pair's points add to high_risk_predictions
HighRiskOf(pair, points) ==
    LET high == SelectSeq(points, LAMBDA pt : pt.risk_level = "HIGH")
    IN  [i \in 1..Len(high) |->
           [area |-> pair.area, condition |-> pair.condition,
            date |-> high[i].date,
            probability |-> high[i].outbreak_probability,
            predicted_cases |-> high[i].predicted_cases]]

\* the body of the try block of run_predictions_for_all_areas for one pair:
\* st is [store, triggers]; an exception leaves st as it was when raised
ScanPair(st, pair, hp, reports, now, ts, fault) ==
    LET res == predict_outbreak_risk(hp, pair.area, pair.condition,
                   get_historical_health_data(reports, pair.area, pair.condition),
                   now, Hits(fault, pair, "predict"))
    IN  IF res.kind = "raise" \/ res.points = <<>> THEN st
        ELSE IF Hits(fault, pair, "save_raises") THEN st
        ELSE [store |-> IF Hits(fault, pair, "write_rejected") THEN st.store
                        ELSE save_prediction(st.store,
                               prediction_record(pair, res.points, now, ts, "ml_system")),
              triggers |-> st.triggers \o HighRiskOf(pair, res.points)]

RECURSIVE ScanLoop(_, _, _, _, _, _, _)
ScanLoop(i, st, hp, reports, now, ts, fault) ==
    IF i > Len(Pairs) THEN st
    ELSE ScanLoop(i + 1, ScanPair(st, Pairs[i], hp, reports, now, ts, fault),
                  hp, reports, now, ts, fault)

\* send_sms(phone, message): TRUE when the message went to Twilio
send_sms(twilio) == twilio

\* send_health_alert_to_users(users, area, condition, cases): one SMS per
\* user, then the alert record. Building the record reads flask.session,
\* which raises RuntimeError outside a request; the SMS are sent by then.
\* out is [sms, alerts, raised].
send_health_alert_to_users(out, us, area, condition, cases, twilio, ctx, ts) ==
    LET sent == IF send_sms(twilio)
                THEN [i \in 1..Len(us) |->
                        [phone |-> us[i].phone, area |-> area, condition |-> condition]]
                ELSE <<>>
        alert_data == [alert_type |-> "health_outbreak", area |-> area,
                       condition |-> condition, cases |-> cases,
                       recipients_count |-> Len(sent), timestamp |-> ts,
                       triggered_by |-> ctx.staff_username]
    IN  IF ctx.in_request
        THEN [sms |-> out.sms \o sent, alerts |-> Append(out.alerts, alert_data),
              raised |-> FALSE]
        ELSE [sms |-> out.sms \o sent, alerts |-> out.alerts, raised |-> TRUE]

\* the auto-alert loop that ends run_predictions_for_all_areas
RECURSIVE AlertLoop(_, _, _, _, _, _, _)
AlertLoop(i, out, triggers, us, twilio, ctx, ts) ==
    IF i > Len(triggers) \/ out.raised THEN out
    ELSE LET pred == triggers[i]
             recipients == get_users_by_area(us, pred.area, TRUE)
         IN  AlertLoop(i + 1,
                       IF Len(recipients) > 0
                       THEN send_health_alert_to_users(out, recipients, pred.area,
                                pred.condition, pred.predicted_cases, twilio, ctx, ts)
                       ELSE out,
                       triggers, us, twilio, ctx, ts)

\* run_predictions_for_all_areas(), as a function of the state it reads:
\* [store, triggers, sms, alerts, raised]
run_predictions_for_all_areas(hp, reports, store, alerts, us, twilio, now, ts, ctx, fault) ==
    IF ~hp.present \/ ~hp.is_trained
    THEN [store |-> store, triggers |-> <<>>, sms |-> <<>>, alerts |-> alerts,
          raised |-> FALSE]
    ELSE LET st == ScanLoop(1, [store |-> store, triggers |-> <<>>],
                            hp, reports, now, ts, fault)
             out == AlertLoop(1, [sms |-> <<>>, alerts |-> alerts, raised |-> FALSE],
                              st.triggers, us, twilio, ctx, ts)
         IN  [store |-> st.store, triggers |-> st.triggers, sms |-> out.sms,
              alerts |-> out.alerts, raised |-> out.raised]

\* the per-condition loop of generate_predictions() for one area; it has no
\* try of its own: st is [store, results, raised]
GeneratePair(st, pair, hp, reports, now, ts, by, fault) ==
    IF st.raised THEN st
    ELSE IF ~hp.present
    THEN [st EXCEPT !.raised = TRUE]
    ELSE LET res == predict_outbreak_risk(hp, pair.area, pair.condition,
                        get_historical_health_data(reports, pair.area, pair.condition),
                        now, Hits(fault, pair, "predict"))
             prediction_data == prediction_record(pair, res.points, now, ts, by)
         IN  IF res.kind = "raise" THEN [st EXCEPT !.raised = TRUE]
             ELSE IF res.points = <<>> THEN st
             ELSE IF Hits(fault, pair, "save_raises") THEN [st EXCEPT !.raised = TRUE]
             ELSE [store |-> IF Hits(fault, pair, "write_rejected") THEN st.store
                             ELSE save_prediction(st.store, prediction_data),
                   results |-> Append(st.results, prediction_data),
                   raised |-> FALSE]

RECURSIVE GenerateLoop(_, _, _, _, _, _, _, _, _)
GenerateLoop(j, st, area, hp, reports, now, ts, by, fault) ==
    IF j > Len(conditions) THEN st
    ELSE GenerateLoop(j + 1,
                      GeneratePair(st, [area |-> area, condition |-> conditions[j]],
                                   hp, reports, now, ts, by, fault),
                      area, hp, reports, now, ts, by, fault)

(***************************************************************************)
(* State machine                                                           *)
(***************************************************************************)
\* feature_cols of HealthOutbreakPredictor.train
FeatureCols ==
    <<"area_encoded", "condition_encoded", "population", "risk_factor",
      "month", "day_of_week", "day_of_year", "week_of_year",
      "is_rainy_season", "rainfall", "cases_lag_7", "cases_lag_14",
      "cases_rolling_7">>

\* HealthOutbreakPredictor.__init__
NewPredictor ==
    [present |-> TRUE, is_trained |-> FALSE,
     label_encoders |-> [area |-> <<>>, condition |-> <<>>],
     feature_cols |-> <<>>]

\* health_predictor = None
NoPredictor == [NewPredictor EXCEPT !.present = FALSE]

\* the artifact files a training run leaves in ml_models/: none, those of a
\* run over every area, those of a run whose data had the first area only
ArtifactSets ==
    {[present |-> FALSE, label_encoders |-> [area |-> <<>>, condition |-> <<>>],
      feature_cols |-> <<>>],
     [present |-> TRUE, label_encoders |-> [area |-> areas, condition |-> conditions],
      feature_cols |-> FeatureCols],
     [present |-> TRUE, label_encoders |-> [area |-> <<areas[1]>>, condition |-> conditions],
      feature_cols |-> FeatureCols]}

\* the areas a staff request can name: the modelled ones and one more
RequestAreas == Range(areas) \cup {"PETIONVILLE"}

ThreadCtx == [in_request |-> FALSE, staff_username |-> "system"]
RequestCtx == [in_request |-> TRUE, staff_username |-> "admin"]

\* the handlers that run run_predictions_for_all_areas()
ScanOps == {"load", "scheduled", "generate_all"}

NoLast == [op |-> "none", at |-> 0, area |-> "", date |-> 0, fault |-> NoFault,
           rerun |-> FALSE, raised |-> FALSE, success |-> TRUE, results |-> <<>>]

\* the handler before this one was a scan of the same day that met no failure
IsRerun == last.op \in ScanOps /\ last.date = today /\ last.fault.failed = {}

NoPoint == MakePoint(0, 0, 0)

\* the variables of the other specifications, at rest
NoCalls == <<>>
NoFiles == <<>>
NoProcess == [pc |-> "idle"]
NoFrame == <<>>
NoOtps == <<>>
NoLog == <<>>
NoWriters == <<>>

UserVarsUnchanged ==
    UNCHANGED <<otp_store, broadcast, auth_otp_store, auth_log, writers>>

RiskVarsUnchanged ==
    /\ UNCHANGED <<outbreak_prob, regressor_out, point, calls, artifact_files,
                   trainer, loader, health_df, features_df>>
    /\ UserVarsUnchanged

PredictVarsAtRest == calls = NoCalls

TrainVarsAtRest == artifact_files = NoFiles /\ trainer = NoProcess /\ loader = NoProcess

FeatureVarsAtRest == health_df = NoFrame /\ features_df = NoFrame

UserVarsAtRest ==
    /\ otp_store = NoOtps
    /\ broadcast = NoProcess
    /\ auth_otp_store = NoOtps
    /\ auth_log = NoLog
    /\ writers = NoWriters

Init ==
    /\ phase = "boot"
    /\ ml_models_dir \in ArtifactSets
    /\ health_predictor = NoPredictor
    /\ health_reports = <<>>
    /\ predictions = <<>>
    /\ sent_alerts = <<>>
    /\ users = <<[phone |-> "+50911", area |-> areas[1], verified |-> TRUE, active |-> TRUE],
                 [phone |-> "+50922", area |-> areas[2], verified |-> FALSE, active |-> TRUE]>>
    /\ twilio_client \in BOOLEAN
    /\ scheduler_alive = FALSE
    /\ today = 0
    /\ clock = 0
    /\ high_risk_predictions = <<>>
    /\ sms_sent = <<>>
    /\ last = NoLast
    /\ env_fault = NoFault
    /\ outbreak_prob = 0
    /\ regressor_out = 0
    /\ point = NoPoint
    /\ PredictVarsAtRest
    /\ TrainVarsAtRest
    /\ FeatureVarsAtRest
    /\ UserVarsAtRest

\* load_ml_models() of __main__: load the five artifacts when all exist, then
\* run the first scan; every exception is caught and printed
load_ml_models ==
    /\ phase = "boot"
    /\ clock < MaxClock
    /\ LET hp == IF ml_models_dir.present
                   THEN [present |-> TRUE, is_trained |-> TRUE,
                         label_encoders |-> ml_models_dir.label_encoders,
                         feature_cols |-> ml_models_dir.feature_cols]
                   ELSE NewPredictor
             r == run_predictions_for_all_areas(hp, health_reports, predictions,
                      sent_alerts, users, twilio_client, today, clock + 1,
                      ThreadCtx, env_fault)
         IN  /\ health_predictor' = hp
             /\ predictions' = r.store
             /\ sent_alerts' = r.alerts
             /\ high_risk_predictions' = r.triggers
             /\ sms_sent' = r.sms
             /\ last' = [op |-> "load", at |-> clock + 1, area |-> "",
                         date |-> today,
                         fault |-> env_fault, rerun |-> IsRerun,
                         raised |-> r.raised, success |-> TRUE, results |-> <<>>]
    /\ phase' = "loaded"
    /\ clock' = clock + 1
    /\ UNCHANGED <<ml_models_dir, health_reports, users, twilio_client,
                   scheduler_alive, today, env_fault>>
    /\ RiskVarsUnchanged

\* start_prediction_scheduler()
start_prediction_scheduler ==
    /\ phase = "loaded"
    /\ clock < MaxClock
    /\ phase' = "serving"
    /\ scheduler_alive' = (health_predictor.present /\ health_predictor.is_trained)
    /\ clock' = clock + 1
    /\ UNCHANGED <<ml_models_dir, health_predictor, health_reports, predictions,
                   sent_alerts, users, twilio_client, today,
                   high_risk_predictions, sms_sent, last, env_fault>>
    /\ RiskVarsUnchanged

\* run_scheduled_predictions() in the scheduler thread: an exception leaves
\* schedule.run_pending() and the while loop of schedule_predictions()
run_scheduled_predictions ==
    /\ phase = "serving"
    /\ scheduler_alive
    /\ clock < MaxClock
    /\ LET r == run_predictions_for_all_areas(health_predictor, health_reports,
                      predictions, sent_alerts, users, twilio_client, today,
                      clock + 1, ThreadCtx, env_fault)
         IN  /\ predictions' = r.store
             /\ sent_alerts' = r.alerts
             /\ high_risk_predictions' = r.triggers
             /\ sms_sent' = r.sms
             /\ scheduler_alive' = ~r.raised
             /\ last' = [op |-> "scheduled", at |-> clock + 1, area |-> "",
                         date |-> today,
                         fault |-> env_fault, rerun |-> IsRerun,
                         raised |-> r.raised, success |-> TRUE, results |-> <<>>]
    /\ clock' = clock + 1
    /\ UNCHANGED <<phase, ml_models_dir, health_predictor, health_reports, users,
                   twilio_client, today, env_fault>>
    /\ RiskVarsUnchanged

\* POST /predictions/generate without an area
generate_predictions_all ==
    /\ phase = "serving"
    /\ clock < MaxClock
    /\ LET r == run_predictions_for_all_areas(health_predictor, health_reports,
                      predictions, sent_alerts, users, twilio_client, today,
                      clock + 1, RequestCtx, env_fault)
         IN  /\ predictions' = r.store
             /\ sent_alerts' = r.alerts
             /\ high_risk_predictions' = r.triggers
             /\ sms_sent' = r.sms
             /\ last' = [op |-> "generate_all", at |-> clock + 1, area |-> "",
                         date |-> today,
                         fault |-> env_fault, rerun |-> IsRerun,
                         raised |-> r.raised, success |-> ~r.raised,
                         results |-> <<>>]
    /\ clock' = clock + 1
    /\ UNCHANGED <<phase, ml_models_dir, health_predictor, health_reports, users,
                   twilio_client, scheduler_alive, today, env_fault>>
    /\ RiskVarsUnchanged

\* POST /predictions/generate with an area
generate_predictions_area ==
    /\ phase = "serving"
    /\ clock < MaxClock
    /\ \E area \in RequestAreas :
         LET st == GenerateLoop(1, [store |-> predictions, results |-> <<>>,
                                    raised |-> FALSE],
                                area, health_predictor, health_reports, today,
                                clock + 1, RequestCtx.staff_username, env_fault)
         IN  /\ predictions' = st.store
             /\ high_risk_predictions' = <<>>
             /\ sms_sent' = <<>>
             /\ last' = [op |-> "generate_area", at |-> clock + 1, area |-> area,
                         date |-> today,
                         fault |-> env_fault, rerun |-> IsRerun,
                         raised |-> st.raised, success |-> ~st.raised,
                         results |-> IF st.raised THEN <<>> ELSE st.results]
    /\ clock' = clock + 1
    /\ UNCHANGED <<phase, ml_models_dir, health_predictor, health_reports,
                   sent_alerts, users, twilio_client, scheduler_alive, today, env_fault>>
    /\ RiskVarsUnchanged

\* DatabaseManager.save_health_report, called by the report collaborator
save_health_report ==
    /\ clock < MaxClock
    /\ \E pair \in PairSet :
         health_reports' = Append(health_reports,
               [area |-> pair.area, condition |-> pair.condition, cases |-> 2])
    /\ clock' = clock + 1
    /\ UNCHANGED <<phase, ml_models_dir, health_predictor, predictions, sent_alerts,
                   users, twilio_client, scheduler_alive, today,
                   high_risk_predictions, sms_sent, last, env_fault>>
    /\ RiskVarsUnchanged

\* the environment starts failing and stays so: the predictions file turns
\* read-only, the model meets an input it cannot score, ...
FaultChange ==
    /\ clock < MaxClock
    /\ env_fault = NoFault
    /\ env_fault' \in Faults
    /\ clock' = clock + 1
    /\ UNCHANGED <<phase, ml_models_dir, health_predictor, health_reports,
                   predictions, sent_alerts, users, twilio_client, scheduler_alive,
                   today, high_risk_predictions, sms_sent, last>>
    /\ RiskVarsUnchanged

\* midnight
NextDay ==
    /\ clock < MaxClock
    /\ today' = today + 1
    /\ clock' = clock + 1
    /\ UNCHANGED <<phase, ml_models_dir, health_predictor, health_reports,
                   predictions, sent_alerts, users, twilio_client, scheduler_alive,
                   high_risk_predictions, sms_sent, last, env_fault>>
    /\ RiskVarsUnchanged

Next ==
    \/ load_ml_models
    \/ start_prediction_scheduler
    \/ run_scheduled_predictions
    \/ generate_predictions_all
    \/ generate_predictions_area
    \/ save_health_report
    \/ FaultChange
    \/ NextDay

Spec == Init /\ [][Next]_vars

(***************************************************************************)
(* The point computation on its own: every classifier and regressor output *)
(***************************************************************************)
InitRisk ==
    /\ phase = "risk_input"
    /\ ml_models_dir = CHOOSE a \in ArtifactSets : ~a.present
    /\ health_predictor = NoPredictor
    /\ health_reports = <<>>
    /\ predictions = <<>>
    /\ sent_alerts = <<>>
    /\ users = <<>>
    /\ twilio_client = FALSE
    /\ scheduler_alive = FALSE
    /\ today = 0
    /\ clock = 0
    /\ high_risk_predictions = <<>>
    /\ sms_sent = <<>>
    /\ last = NoLast
    /\ env_fault = NoFault
    /\ outbreak_prob \in 0..100
    /\ regressor_out \in (0 - MaxRaw)..MaxRaw
    /\ point = NoPoint
    /\ PredictVarsAtRest
    /\ TrainVarsAtRest
    /\ FeatureVarsAtRest
    /\ UserVarsAtRest

\* lines 197-205 of predict_outbreak_risk for tomorrow's row: the two model
\* outputs become one point
score_point ==
    /\ phase = "risk_input"
    /\ phase' = "risk_scored"
    /\ point' = MakePoint(today + 1, outbreak_prob, regressor_out)
    /\ UNCHANGED <<ml_models_dir, health_predictor, health_reports, predictions,
                   sent_alerts, users, twilio_client, scheduler_alive, today, clock,
                   high_risk_predictions, sms_sent, last, env_fault,
                   outbreak_prob, regressor_out, calls, artifact_files,
                   trainer, loader, health_df, features_df>>
    /\ UserVarsUnchanged

NextRisk == score_point

SpecRisk == InitRisk /\ [][NextRisk]_vars

(***************************************************************************)
(* predict_outbreak_risk call by call, with the clock and the file its     *)
(* iterations read                                                         *)
(***************************************************************************)
\* the predictor load_ml_models() builds from the artifacts of a run over
\* every area
LoadedPredictor ==
    [present |-> TRUE, is_trained |-> TRUE,
     label_encoders |-> [area |-> areas, condition |-> conditions],
     feature_cols |-> FeatureCols]

\* the summaries get_historical_health_data gives for no report and for one
HistoricalSummaries ==
    {get_historical_health_data(r, areas[1], conditions[1]) :
        r \in {<<>>, <<[area |-> areas[1], condition |-> conditions[1], cases |-> 2]>>}}

\* the calendar days datetime.now() can give in the iterations of a call
\* that starts on day d: midnight may pass between two iterations
NowReads(d) ==
    {n \in [1..days_ahead -> d..(d + days_ahead)] :
        /\ n[1] = d
        /\ \A k \in 2..days_ahead : n[k] - n[k - 1] \in {0, 1}}

InitPredict ==
    /\ phase = "predict"
    /\ ml_models_dir = CHOOSE a \in ArtifactSets : ~a.present
    /\ health_predictor = LoadedPredictor
    /\ health_reports = <<>>
    /\ predictions = <<>>
    /\ sent_alerts = <<>>
    /\ users = <<>>
    /\ twilio_client = FALSE
    /\ scheduler_alive = FALSE
    /\ today = 0
    /\ clock = 0
    /\ high_risk_predictions = <<>>
    /\ sms_sent = <<>>
    /\ last = NoLast
    /\ env_fault = NoFault
    /\ outbreak_prob = 0
    /\ regressor_out = 0
    /\ point = NoPoint
    /\ PredictVarsAtRest
    /\ TrainVarsAtRest
    /\ FeatureVarsAtRest
    /\ UserVarsAtRest

\* one call health_predictor.predict_outbreak_risk(area, condition,
\* historical_data, days_ahead), made today; the day its last iteration
\* reads is the day of the next call; calls keeps the call before it and
\* this one
predict_call ==
    /\ phase = "predict"
    /\ clock < MaxCalls
    /\ \E area \in RequestAreas, condition \in Range(conditions),
          historical_data \in HistoricalSummaries,
          areas_info \in AreasInfoFiles, draw \in {0, 1} :
         \E nows \in NowReads(today) :
            LET env == [nows |-> nows, areas_info |-> areas_info, draw |-> draw]
                result == predict_outbreak_risk_at(health_predictor, area, condition,
                                                   historical_data, env)
            IN  /\ calls' = Append(LastN(calls, 1),
                        [area |-> area, condition |-> condition,
                         historical_data |-> historical_data,
                         called_on |-> today, nows |-> nows,
                         areas_info |-> areas_info, result |-> result])
                /\ today' = nows[days_ahead]
    /\ clock' = clock + 1
    /\ UNCHANGED <<phase, ml_models_dir, health_predictor, health_reports,
                   predictions, sent_alerts, users, twilio_client, scheduler_alive,
                   high_risk_predictions, sms_sent, last, env_fault,
                   outbreak_prob, regressor_out, point, artifact_files, trainer,
                   loader, health_df, features_df>>
    /\ UserVarsUnchanged

NextPredict == predict_call

SpecPredict == InitPredict /\ [][NextPredict]_vars

(***************************************************************************)
(* Training and loading: train_all_models() of ml_models.py writes the     *)
(* five artifacts, load_ml_models() of app.py reads them; two processes    *)
(***************************************************************************)
\* model_files of load_ml_models, in the order train() dumps them
model_files ==
    <<"outbreak_classifier.pkl", "cases_regressor.pkl", "label_encoders.pkl",
      "scaler.pkl", "feature_cols.pkl">>

AbsentFile == [exists |-> FALSE, run |-> 0, value |-> <<>>]

\* ml_models/ before any training
AbsentFiles == [k \in 1..Len(model_files) |-> AbsentFile]

\* one report row of haiti_health_data.csv
Row(area, condition, date) ==
    [area |-> area, condition |-> condition, date |-> date, cases |-> 2]

\* the data sets train() is given: empty, one row, rows of one area only, of
\* one condition only, of one pair only, of two areas and two conditions
TrainingSets ==
    {<<>>,
     <<Row(areas[1], conditions[1], 1)>>,
     <<Row(areas[1], conditions[1], 1), Row(areas[1], conditions[2], 1)>>,
     <<Row(areas[1], conditions[1], 1), Row(areas[2], conditions[1], 1)>>,
     <<Row(areas[1], conditions[1], 1), Row(areas[1], conditions[1], 2)>>,
     <<Row(areas[1], conditions[1], 1), Row(areas[2], conditions[2], 1)>>}

\* lines 71-119 of train(health_df): prepare_features, the two
\* train_test_split (test_size=0.2 leaves an empty train set for one row and
\* raises ValueError), the fits; nothing looks at the number of classes
train_fit(df) ==
    LET features == prepare_features(df)
    IN  IF features.raised \/ Len(features.rows) < 2
        THEN [raised |-> TRUE, error |-> "ValueError", hp |-> NewPredictor]
        ELSE [raised |-> FALSE, error |-> "none",
              hp |-> [present |-> TRUE, is_trained |-> TRUE,
                      label_encoders |-> features.label_encoders,
                      feature_cols |-> FeatureCols]]

\* feature_cols.pkl written empty
dump_NoCols(k, hp, run) ==
    [exists |-> TRUE, run |-> run,
     value |-> IF k = 3 THEN hp.label_encoders
               ELSE IF k = 5 THEN <<>>
               ELSE [fitted_by |-> run]]

\* joblib.dump of lines 125-131: what file k holds after run `run` has
\* written it from the predictor hp
dump(k, hp, run) ==
    [exists |-> TRUE, run |-> run,
     value |-> IF k = 3 THEN hp.label_encoders
               ELSE IF k = 5 THEN hp.feature_cols
               ELSE [fitted_by |-> run]]

IdleTrainer ==
    [pc |-> "idle", run |-> 0, df |-> <<>>, hp |-> NewPredictor, written |-> 0,
     error |-> "none", raised |-> FALSE]

IdleLoader ==
    [pc |-> "idle", n |-> 0, from |-> [k \in 1..Len(model_files) |-> 0],
     error |-> "none", raised |-> FALSE]

AppVarsUnchanged ==
    /\ UNCHANGED <<phase, ml_models_dir, health_reports, predictions, sent_alerts,
                users, twilio_client, scheduler_alive, today, clock,
                high_risk_predictions, sms_sent, last, env_fault, outbreak_prob,
                regressor_out, point, calls, health_df, features_df>>
    /\ UserVarsUnchanged

InitTrain ==
    /\ phase = "train"
    /\ ml_models_dir = CHOOSE a \in ArtifactSets : ~a.present
    /\ health_predictor = NoPredictor
    /\ health_reports = <<>>
    /\ predictions = <<>>
    /\ sent_alerts = <<>>
    /\ users = <<>>
    /\ twilio_client = FALSE
    /\ scheduler_alive = FALSE
    /\ today = 0
    /\ clock = 0
    /\ high_risk_predictions = <<>>
    /\ sms_sent = <<>>
    /\ last = NoLast
    /\ env_fault = NoFault
    /\ outbreak_prob = 0
    /\ regressor_out = 0
    /\ point = NoPoint
    /\ PredictVarsAtRest
    /\ artifact_files = AbsentFiles
    /\ trainer = IdleTrainer
    /\ loader = IdleLoader
    /\ FeatureVarsAtRest
    /\ UserVarsAtRest

\* train_all_models() up to the first joblib.dump of train(): an exception of
\* train() is caught by the except clauses of train_all_models, printed, and
\* the function returns
train_all_models ==
    /\ phase = "train"
    /\ trainer.pc # "saving"
    /\ trainer.run < MaxRuns
    /\ \E df \in TrainingSets :
         LET r == train_fit(df)
         IN  trainer' = [pc |-> IF r.raised THEN "returned" ELSE "saving",
                         run |-> trainer.run + 1, df |-> df, hp |-> r.hp,
                         written |-> 0, error |-> r.error, raised |-> FALSE]
    /\ UNCHANGED <<health_predictor, artifact_files, loader>>
    /\ AppVarsUnchanged

\* one joblib.dump of train(); an OSError of the dump ends train() and is
\* caught by train_all_models like any other
joblib_dump ==
    /\ phase = "train"
    /\ trainer.pc = "saving"
    /\ \E ok \in BOOLEAN :
         LET k == trainer.written + 1
         IN  IF ok
             THEN /\ artifact_files' =
                        [artifact_files EXCEPT ![k] = dump(k, trainer.hp, trainer.run)]
                  /\ trainer' = [trainer EXCEPT !.written = k,
                                    !.pc = IF k = Len(model_files) THEN "returned"
                                           ELSE "saving"]
             ELSE /\ artifact_files' = artifact_files
                  /\ trainer' = [trainer EXCEPT !.pc = "returned", !.error = "OSError"]
    /\ UNCHANGED <<health_predictor, loader>>
    /\ AppVarsUnchanged

\* the training process is killed between two dumps
train_interrupted ==
    /\ phase = "train"
    /\ trainer.pc = "saving"
    /\ trainer' = [trainer EXCEPT !.pc = "killed"]
    /\ UNCHANGED <<health_predictor, artifact_files, loader>>
    /\ AppVarsUnchanged

\* load_ml_models() up to the first joblib.load: a new predictor, and the
\* test that the five files exist
load_ml_models_start ==
    /\ phase = "train"
    /\ loader.pc # "loading"
    /\ loader.n < MaxRuns
    /\ health_predictor' = NewPredictor
    /\ loader' = [pc |-> IF \A k \in 1..Len(model_files) : artifact_files[k].exists
                         THEN "loading" ELSE "returned",
                  n |-> loader.n + 1, from |-> IdleLoader.from,
                  error |-> "none", raised |-> FALSE]
    /\ UNCHANGED <<artifact_files, trainer>>
    /\ AppVarsUnchanged

\* one joblib.load of load_ml_models(), and is_trained = True after the
\* fifth; an exception of the load is caught by the except clause of
\* load_ml_models, printed, and the function returns
joblib_load ==
    /\ phase = "train"
    /\ loader.pc = "loading"
    /\ \E ok \in BOOLEAN :
         LET k == Len(SelectSeq(loader.from, LAMBDA r : r # 0)) + 1
             file == artifact_files[k]
             read == IF k = 3 THEN [health_predictor EXCEPT !.label_encoders = file.value]
                     ELSE IF k = 5 THEN [health_predictor EXCEPT !.feature_cols = file.value]
                     ELSE health_predictor
         IN  IF ok
             THEN /\ health_predictor' =
                        IF k = Len(model_files) THEN [read EXCEPT !.is_trained = TRUE]
                        ELSE read
                  /\ loader' = [loader EXCEPT !.from[k] = file.run,
                                   !.pc = IF k = Len(model_files) THEN "returned"
                                          ELSE "loading"]
             ELSE /\ health_predictor' = health_predictor
                  /\ loader' = [loader EXCEPT !.pc = "returned",
                                              !.error = "UnpicklingError"]
    /\ UNCHANGED <<artifact_files, trainer>>
    /\ AppVarsUnchanged

NextTrain ==
    \/ train_all_models
    \/ joblib_dump
    \/ train_interrupted
    \/ load_ml_models_start
    \/ joblib_load

SpecTrain == InitTrain /\ [][NextTrain]_vars

(***************************************************************************)
(* prepare_features on its own, over frames of one long group and one      *)
(* other group                                                             *)
(***************************************************************************)
\* the cases reported on date d in the k-th series of case counts
Cases(k, d) == (k * d) % 5

\* n reports of one pair, one per date 1..n
GroupRows(area, condition, n, k) ==
    [d \in 1..n |-> [area |-> area, condition |-> condition, date |-> d,
                     cases |-> Cases(k, d)]]

Reverse(s) == [i \in 1..Len(s) |-> s[Len(s) + 1 - i]]

\* the sizes of the other group: absent, one row, more rows than LAG_7
OtherGroupSizes == {0, 1, LAG_7 + 1}

\* the other group differs in the area or in the condition
OtherPairs ==
    {[area |-> areas[2], condition |-> conditions[1]],
     [area |-> areas[1], condition |-> conditions[2]]}

\* the frames: n1 rows of (areas[1], conditions[1]), with a second report
\* for date 1 when dup, and n2 rows of the other pair; the csv lists them
\* group after group, or in the reverse of that, or with the other group in
\* the middle of the first
Frame(n1, n2, k, other, dup, order) ==
    LET g1 == GroupRows(areas[1], conditions[1], n1, k)
               \o (IF dup THEN <<[area |-> areas[1], condition |-> conditions[1],
                                   date |-> 1, cases |-> Cases(k, n1 + 1)]>>
                   ELSE <<>>)
        g2 == GroupRows(other.area, other.condition, n2, k + 1)
        h == Len(g1) \div 2
    IN  IF order = "grouped" THEN g1 \o g2
        ELSE IF order = "reversed" THEN Reverse(g1 \o g2)
        ELSE SubSeq(g1, 1, h) \o g2 \o SubSeq(g1, h + 1, Len(g1))

InitFeatures ==
    /\ phase = "features_input"
    /\ ml_models_dir = CHOOSE a \in ArtifactSets : ~a.present
    /\ health_predictor = NewPredictor
    /\ health_reports = <<>>
    /\ predictions = <<>>
    /\ sent_alerts = <<>>
    /\ users = <<>>
    /\ twilio_client = FALSE
    /\ scheduler_alive = FALSE
    /\ today = 0
    /\ clock = 0
    /\ high_risk_predictions = <<>>
    /\ sms_sent = <<>>
    /\ last = NoLast
    /\ env_fault = NoFault
    /\ outbreak_prob = 0
    /\ regressor_out = 0
    /\ point = NoPoint
    /\ PredictVarsAtRest
    /\ TrainVarsAtRest
    /\ \E n1 \in 0..MaxRows, n2 \in OtherGroupSizes, k \in 1..3,
          other \in OtherPairs, dup \in BOOLEAN,
          order \in {"grouped", "reversed", "interleaved"} :
          health_df = Frame(n1, n2, k, other, dup, order)
    /\ features_df = NoFrame
    /\ UserVarsAtRest

\* features_df = self.prepare_features(health_df), line 71 of train()
prepare_features_call ==
    /\ phase = "features_input"
    /\ phase' = "features_done"
    /\ features_df' = prepare_features(health_df)
    /\ UNCHANGED <<ml_models_dir, health_predictor, health_reports, predictions,
                   sent_alerts, users, twilio_client, scheduler_alive, today, clock,
                   high_risk_predictions, sms_sent, last, env_fault,
                   outbreak_prob, regressor_out, point, calls, artifact_files,
                   trainer, loader, health_df>>
    /\ UserVarsUnchanged

NextFeatures == prepare_features_call

SpecFeatures == InitFeatures /\ [][NextFeatures]_vars

(***************************************************************************)
(* The calendar. A date is the number of days since 2025-01-01, as `today` *)
(* is; the operators below give what datetime and pandas give for it.      *)
(***************************************************************************)
EPOCH_YEAR == 2025
EPOCH_WEEKDAY == 2      \* 2025-01-01 is a Wednesday; weekday() of Monday is 0
RAINY_MONTHS == {4, 5, 6, 7, 8, 9}

IsLeap(y) == (y % 4 = 0 /\ y % 100 # 0) \/ y % 400 = 0

YearLen(y) == IF IsLeap(y) THEN 366 ELSE 365

MonthLens(y) ==
    <<31, IF IsLeap(y) THEN 29 ELSE 28, 31, 30, 31, 30, 31, 31, 30, 31, 30, 31>>

\* the year of date d and its day of the year (tm_yday, dt.dayofyear)
RECURSIVE YearDay(_, _)
YearDay(d, y) ==
    IF d < YearLen(y) THEN [year |-> y, yday |-> d + 1]
    ELSE YearDay(d - YearLen(y), y + 1)

\* the month in which the yday-th day of year y falls
RECURSIVE MonthFrom(_, _, _)
MonthFrom(yday, y, m) ==
    IF yday <= MonthLens(y)[m] THEN m
    ELSE MonthFrom(yday - MonthLens(y)[m], y, m + 1)

\* date.month
month(d) == LET yd == YearDay(d, EPOCH_YEAR) IN MonthFrom(yd.yday, yd.year, 1)

\* date.timetuple().tm_yday and Series.dt.dayofyear
day_of_year(d) == YearDay(d, EPOCH_YEAR).yday

\* date.weekday(): Monday is 0
weekday(d) == (d + EPOCH_WEEKDAY) % 7

\* the ISO weeks of the year whose 1 January has weekday jan1: 53 when that
\* day is a Thursday, or a Wednesday of a leap year
WeeksIn(y, jan1) ==
    IF jan1 = 3 \/ (jan1 = 2 /\ IsLeap(y)) THEN 53 ELSE 52

\* date.isocalendar()[1] and Series.dt.isocalendar().week
week_of_year(d) ==
    LET yd == YearDay(d, EPOCH_YEAR)
        jan1 == weekday(d - (yd.yday - 1))
        w == (yd.yday - (weekday(d) + 1) + 10) \div 7
        prev_jan1 == (jan1 + 7 * 53 - YearLen(yd.year - 1)) % 7
    IN  IF w < 1 THEN WeeksIn(yd.year - 1, prev_jan1)
        ELSE IF w > WeeksIn(yd.year, jan1) THEN 1
        ELSE w

(***************************************************************************)
(* Training rows and inference rows. A csv row carries, next to area,      *)
(* condition, date and cases, the columns population, risk_factor, month,  *)
(* day_of_week and rainfall; a feature row is a record over column names.  *)
(***************************************************************************)
\* area_info.get('population', 100000), in thousands
population(areas_info, area) ==
    IF areas_info = "present" /\ area \in Range(areas) THEN 250 ELSE 100

\* the row generate_health_data of data_generator.py writes for a report
GeneratedRow(area, condition, date, cases) ==
    [area |-> area, condition |-> condition, date |-> date, cases |-> cases,
     population |-> 250, risk_factor |-> 8, month |-> month(date),
     day_of_week |-> weekday(date),
     rainfall |-> IF month(date) \in RAINY_MONTHS THEN 25 ELSE 5]

\* the columns lines 36-43 of prepare_features add to a csv row
calendar_columns(row) ==
    [day_of_year |-> day_of_year(row.date),
     week_of_year |-> week_of_year(row.date),
     is_rainy_season |-> IF row.month \in RAINY_MONTHS THEN 1 ELSE 0]

\* the csv row a row of prepare_features was built from (the frames of
\* SpecRows have one row per area, condition and date)
SourceOf(df, r) ==
    CHOOSE i \in 1..Len(df) :
        /\ df[i].area = r.area
        /\ df[i].condition = r.condition
        /\ df[i].date = r.date

\* features_df of train(): every column of every row, as a record
features_rows(df) ==
    LET prepared == prepare_features(
                        [i \in 1..Len(df) |->
                            [area |-> df[i].area, condition |-> df[i].condition,
                             date |-> df[i].date, cases |-> df[i].cases]])
    IN  [j \in 1..Len(prepared.rows) |->
            LET r == prepared.rows[j]
                src == df[SourceOf(df, r)]
                cal == calendar_columns(src)
            IN  [area_encoded |-> r.area_encoded,
                 condition_encoded |-> r.condition_encoded,
                 population |-> src.population, risk_factor |-> src.risk_factor,
                 month |-> src.month, day_of_week |-> src.day_of_week,
                 day_of_year |-> cal.day_of_year, week_of_year |-> cal.week_of_year,
                 is_rainy_season |-> cal.is_rainy_season, rainfall |-> src.rainfall,
                 cases_lag_7 |-> r.cases_lag_7, cases_lag_14 |-> r.cases_lag_14,
                 cases_rolling_7 |-> r.cases_rolling_7,
                 date |-> r.date, cases |-> r.cases]]

\* X = features_df[feature_cols]: the named columns, in the order named
select_columns(rows, feature_cols) ==
    [columns |-> feature_cols,
     values |-> [j \in 1..Len(rows) |->
                   [k \in 1..Len(feature_cols) |-> rows[j][feature_cols[k]]]]]

\* the history columns taken from the point predicted for the day before
features_at_Compounding(hp, area, condition, historical_data, future_date, areas_info, so_far) ==
    LET fed == IF so_far = <<>> THEN historical_data.recent_cases_7d
               ELSE so_far[Len(so_far)].predicted_cases
    IN  [area_encoded |-> Transform(hp.label_encoders.area, area),
         condition_encoded |-> Transform(hp.label_encoders.condition, condition),
         population |-> population(areas_info, area),
         risk_factor |-> risk_factor(areas_info, area),
         month |-> month(future_date),
         day_of_week |-> weekday(future_date),
         day_of_year |-> day_of_year(future_date),
         week_of_year |-> week_of_year(future_date),
         is_rainy_season |-> IF month(future_date) \in RAINY_MONTHS THEN 1 ELSE 0,
         rainfall |-> IF month(future_date) \in RAINY_MONTHS THEN 25 ELSE 5,
         cases_lag_7 |-> fed,
         cases_lag_14 |-> historical_data.recent_cases_14d,
         cases_rolling_7 |-> historical_data.avg_cases_7d]

\* the dict `features` of one iteration of predict_outbreak_risk, lines
\* 176-190; so_far is the list `predictions` of the points appended so far, which the
\* dict does not use
features_at(hp, area, condition, historical_data, future_date, areas_info, so_far) ==
    [area_encoded |-> Transform(hp.label_encoders.area, area),
     condition_encoded |-> Transform(hp.label_encoders.condition, condition),
     population |-> population(areas_info, area),
     risk_factor |-> risk_factor(areas_info, area),
     month |-> month(future_date),
     day_of_week |-> weekday(future_date),
     day_of_year |-> day_of_year(future_date),
     week_of_year |-> week_of_year(future_date),
     is_rainy_season |-> IF month(future_date) \in RAINY_MONTHS THEN 1 ELSE 0,
     rainfall |-> IF month(future_date) \in RAINY_MONTHS THEN 25 ELSE 5,
     cases_lag_7 |-> historical_data.recent_cases_7d,
     cases_lag_14 |-> historical_data.recent_cases_14d,
     cases_rolling_7 |-> historical_data.avg_cases_7d]

\* the vector built in the reverse of the stored order
X_pred_Reversed(row, feature_cols) ==
    [k \in 1..Len(feature_cols) |-> row[feature_cols[Len(feature_cols) + 1 - k]]]

\* X_pred = np.array([[features[col] for col in self.feature_cols]])[0]
X_pred(row, feature_cols) ==
    [k \in 1..Len(feature_cols) |-> row[feature_cols[k]]]

\* the iterations of predict_outbreak_risk that reach line 176, all of them
\* on calendar day now: the dict, the vector and the point of each. The
\* forests read the vector by position, the positions being those of the
\* columns they were fitted on.
RECURSIVE rows_loop(_, _, _, _, _, _, _, _)
rows_loop(day, acc, hp, area, condition, historical_data, now, areas_info) ==
    IF day > days_ahead THEN acc
    ELSE LET future_date == now + day
             so_far == [i \in 1..Len(acc) |-> acc[i].point]
             row == features_at(hp, area, condition, historical_data, future_date,
                                areas_info, so_far)
             x == X_pred(row, hp.feature_cols)
         IN  rows_loop(day + 1,
                 IF row.area_encoded = -1 \/ row.condition_encoded = -1 THEN acc
                 ELSE Append(acc,
                        [date |-> future_date, features |-> row, X_pred |-> x,
                         point |-> MakePoint(future_date,
                                      predict_proba_rf(x[1], x[2], x[7], x[11], x[4], 0),
                                      regressor_predict(x[1], x[2], x[7], x[11]))]),
                 hp, area, condition, historical_data, now, areas_info)

\* the dates of the rows: around the turns of the year 2025/26 and 2026/27
\* (2026 has 53 ISO weeks), of February (2028 is a leap year) and of the
\* rainy season
SampleDates ==
    {0, 1, 4, 5, 58, 59, 89, 90, 181, 272, 273, 362, 363, 364, 365, 366,
     729, 730, 731, 1153, 1154, 1155}

InitRows ==
    /\ phase = "rows_input"
    /\ ml_models_dir = CHOOSE a \in ArtifactSets : ~a.present
    /\ health_predictor = NewPredictor
    /\ health_reports = <<>>
    /\ predictions = <<>>
    /\ sent_alerts = <<>>
    /\ users = <<>>
    /\ twilio_client = FALSE
    /\ scheduler_alive = FALSE
    /\ today = 0
    /\ clock = 0
    /\ high_risk_predictions = <<>>
    /\ sms_sent = <<>>
    /\ last = NoLast
    /\ env_fault = NoFault
    /\ outbreak_prob = 0
    /\ regressor_out = 0
    /\ point = NoPoint
    /\ PredictVarsAtRest
    /\ TrainVarsAtRest
    /\ features_df = NoFrame
    /\ UserVarsAtRest
    /\ \E date \in SampleDates, month_column \in 1..12 :
          health_df = <<[GeneratedRow(areas[1], conditions[1], date, 2)
                            EXCEPT !.month = month_column],
                        GeneratedRow(areas[2], conditions[2], date + 1, 3)>>

\* train(health_df) up to the fit of the scaler and the forests: features_df,
\* the matrix X and the trained predictor
train_rows ==
    /\ phase = "rows_input"
    /\ phase' = "rows_trained"
    /\ LET rows == features_rows(health_df)
           fitted == train_fit([i \in 1..Len(health_df) |->
                                  [area |-> health_df[i].area,
                                   condition |-> health_df[i].condition,
                                   date |-> health_df[i].date,
                                   cases |-> health_df[i].cases]])
       IN  /\ features_df' = [rows |-> rows,
                              X |-> select_columns(rows, FeatureCols)]
           /\ health_predictor' = fitted.hp
    /\ UNCHANGED <<ml_models_dir, health_reports, predictions, sent_alerts, users,
                   twilio_client, scheduler_alive, today, clock,
                   high_risk_predictions, sms_sent, last, env_fault,
                   outbreak_prob, regressor_out, point, calls, artifact_files,
                   trainer, loader, health_df>>
    /\ UserVarsUnchanged

\* one call predict_outbreak_risk(area, condition, historical_data,
\* days_ahead) of the trained predictor, on a day whose tomorrow is one of
\* the sample dates
predict_rows ==
    /\ phase = "rows_trained"
    /\ phase' = "rows_predicted"
    /\ \E area \in Range(areas), condition \in Range(conditions),
          historical_data \in HistoricalSummaries,
          areas_info \in AreasInfoFiles, date \in SampleDates \ {0} :
         /\ today' = date - 1
         /\ calls' = <<[area |-> area, condition |-> condition,
                        historical_data |-> historical_data,
                        called_on |-> date - 1, areas_info |-> areas_info,
                        rows |-> rows_loop(1, <<>>, health_predictor, area,
                                           condition, historical_data, date - 1,
                                           areas_info),
                        historical_data_after |-> historical_data]>>
    /\ UNCHANGED <<ml_models_dir, health_predictor, health_reports, predictions,
                   sent_alerts, users, twilio_client, scheduler_alive, clock,
                   high_risk_predictions, sms_sent, last, env_fault,
                   outbreak_prob, regressor_out, point, artifact_files,
                   trainer, loader, health_df, features_df>>
    /\ UserVarsUnchanged

NextRows == train_rows \/ predict_rows

SpecRows == InitRows /\ [][NextRows]_vars

(***************************************************************************)
(* prepare_features called again and again on one predictor: the label     *)
(* encoders are fitted by the first call and applied by the later ones.    *)
(* self.label_encoders is a dict: a function whose domain holds the        *)
(* columns that have an encoder.                                           *)
(***************************************************************************)
\* every label a frame can hold, in sorted order
area_labels == <<"DELMAS", "PETIONVILLE", "TABARRE">>
condition_labels == <<"cholera", "fever">>

\* an encoder fitted anew by every call
encoders_for_Refit(label_encoders, df) ==
    [area |-> fit(area_labels, [i \in 1..Len(df) |-> df[i].area]),
     condition |-> fit(condition_labels, [i \in 1..Len(df) |-> df[i].condition])]

\* lines 27-34: the encoder of a column is fitted on the frame when the dict
\* has none for it, and is the one of the dict otherwise
encoders_for(label_encoders, df) ==
    [area |-> IF "area" \in DOMAIN label_encoders THEN label_encoders["area"]
              ELSE fit(area_labels, [i \in 1..Len(df) |-> df[i].area]),
     condition |-> IF "condition" \in DOMAIN label_encoders
                   THEN label_encoders["condition"]
                   ELSE fit(condition_labels, [i \in 1..Len(df) |-> df[i].condition])]

\* prepare_features(df) of a predictor whose dict is label_encoders:
\* transform raises ValueError for a label the encoder was not fitted on,
\* pd.concat raises ValueError when the frame has no group
prepare_features_on(label_encoders, df) ==
    LET encoders == encoders_for(label_encoders, df)
        unseen == \E i \in 1..Len(df) :
                     \/ Transform(encoders.area, df[i].area) = -1
                     \/ Transform(encoders.condition, df[i].condition) = -1
        encoded == [i \in 1..Len(df) |->
                      [area |-> df[i].area, condition |-> df[i].condition,
                       date |-> df[i].date, cases |-> df[i].cases,
                       area_encoded |-> Transform(encoders.area, df[i].area),
                       condition_encoded |-> Transform(encoders.condition, df[i].condition)]]
        features_sorted == sort_values(encoded, "keys")
        keys == GroupKeys(features_sorted, encoders)
        lag_rolling_features ==
            [g \in 1..Len(keys) |->
               lag_rolling(SelectSeq(features_sorted,
                   LAMBDA r : /\ r.area_encoded = keys[g].area_encoded
                              /\ r.condition_encoded = keys[g].condition_encoded))]
    IN  IF unseen
        THEN [raised |-> TRUE, error |-> "ValueError: unseen labels",
              label_encoders |-> encoders, rows |-> <<>>]
        ELSE IF lag_rolling_features = <<>>
        THEN [raised |-> TRUE, error |-> "ValueError: no objects to concatenate",
              label_encoders |-> encoders, rows |-> <<>>]
        ELSE [raised |-> FALSE, error |-> "none", label_encoders |-> encoders,
              rows |-> Flatten(lag_rolling_features)]

\* the frames given to the calls: no row, one row, two rows
EncoderRows ==
    {[area |-> a, condition |-> c, date |-> 1, cases |-> 2] :
        a \in Range(area_labels), c \in Range(condition_labels)}

EncoderFrames ==
    {<<>>} \cup {<<r>> : r \in EncoderRows}
           \cup {<<r, [q EXCEPT !.date = 2]>> : r \in EncoderRows, q \in EncoderRows}

InitEncoders ==
    /\ phase = "encoders"
    /\ ml_models_dir = CHOOSE a \in ArtifactSets : ~a.present
    /\ health_predictor = [NewPredictor EXCEPT !.label_encoders = <<>>]
    /\ health_reports = <<>>
    /\ predictions = <<>>
    /\ sent_alerts = <<>>
    /\ users = <<>>
    /\ twilio_client = FALSE
    /\ scheduler_alive = FALSE
    /\ today = 0
    /\ clock = 0
    /\ high_risk_predictions = <<>>
    /\ sms_sent = <<>>
    /\ last = NoLast
    /\ env_fault = NoFault
    /\ outbreak_prob = 0
    /\ regressor_out = 0
    /\ point = NoPoint
    /\ PredictVarsAtRest
    /\ TrainVarsAtRest
    /\ FeatureVarsAtRest
    /\ UserVarsAtRest

\* one more call self.prepare_features(df) on the same predictor
prepare_features_again ==
    /\ phase = "encoders"
    /\ Len(calls) < MaxCalls
    /\ \E df \in EncoderFrames :
         LET result == prepare_features_on(health_predictor.label_encoders, df)
         IN  /\ health_predictor' =
                    [health_predictor EXCEPT !.label_encoders = result.label_encoders]
             /\ calls' = Append(calls, [df |-> df, result |-> result])
             /\ health_df' = df
             /\ features_df' = result
    /\ UNCHANGED <<phase, ml_models_dir, health_reports, predictions, sent_alerts,
                   users, twilio_client, scheduler_alive, today, clock,
                   high_risk_predictions, sms_sent, last, env_fault,
                   outbreak_prob, regressor_out, point, artifact_files,
                   trainer, loader>>
    /\ UserVarsUnchanged

NextEncoders == prepare_features_again

SpecEncoders == InitEncoders /\ [][NextEncoders]_vars

(***************************************************************************)
(* Two threads saving predictions: the scheduler thread inside the scan of *)
(* run_predictions_for_all_areas, and a request thread inside              *)
(* /predictions/generate for one area. save_prediction is load_json_data,  *)
(* a filter and an append in memory, and save_json_data; nothing locks the *)
(* file. `predictions` is what a read of predictions.json gives.           *)
(***************************************************************************)
Threads == {"scheduler", "request"}

\* the records the scan saves, pair after pair
ScanRecords ==
    [i \in 1..Len(Pairs) |-> prediction_record(Pairs[i], <<>>, 0, 0, "ml_system")]

\* the records /predictions/generate saves for one area, condition after
\* condition
RequestRecords(area) ==
    [j \in 1..Len(conditions) |->
        prediction_record([area |-> area, condition |-> conditions[j]],
                          <<>>, 0, 0, "admin")]

\* a thread between two saves
Writer(todo) == [pc |-> "idle", todo |-> todo, data |-> <<>>, saved |-> <<>>]

InitStore ==
    /\ phase = "store"
    /\ ml_models_dir = CHOOSE a \in ArtifactSets : ~a.present
    /\ health_predictor = LoadedPredictor
    /\ health_reports = <<>>
    /\ \E old \in {<<>>, <<prediction_record(Pairs[1], <<>>, 0, 0, "demo")>>} :
          predictions = old
    /\ sent_alerts = <<>>
    /\ users = <<>>
    /\ twilio_client = FALSE
    /\ scheduler_alive = TRUE
    /\ today = 0
    /\ clock = 0
    /\ high_risk_predictions = <<>>
    /\ sms_sent = <<>>
    /\ last = NoLast
    /\ env_fault = NoFault
    /\ outbreak_prob = 0
    /\ regressor_out = 0
    /\ point = NoPoint
    /\ PredictVarsAtRest
    /\ TrainVarsAtRest
    /\ FeatureVarsAtRest
    /\ otp_store = NoOtps
    /\ broadcast = NoProcess
    /\ auth_otp_store = NoOtps
    /\ auth_log = NoLog
    /\ \E area \in RequestAreas :
          writers = [t \in Threads |->
                       IF t = "scheduler" THEN Writer(ScanRecords)
                       ELSE Writer(RequestRecords(area))]

StoreVarsUnchanged ==
    UNCHANGED <<phase, ml_models_dir, health_predictor, health_reports,
                sent_alerts, users, twilio_client, scheduler_alive, today, clock,
                high_risk_predictions, sms_sent, last, env_fault, outbreak_prob,
                regressor_out, point, calls, artifact_files, trainer, loader,
                health_df, features_df, otp_store, broadcast, auth_otp_store,
                auth_log>>

\* predictions = self.load_json_data(PREDICTIONS_FILE), then the filter and
\* the append, in memory
load_json_data ==
    \E t \in Threads :
        /\ writers[t].pc = "idle"
        /\ writers[t].todo # <<>>
        /\ writers' = [writers EXCEPT
                          ![t].pc = "loaded",
                          ![t].data = save_prediction(predictions, Head(writers[t].todo))]
        /\ UNCHANGED predictions
        /\ StoreVarsUnchanged

\* save_json_data: open(filename, 'w') truncates the file; a read before the
\* dump finds no JSON in it and load_json_data returns []
open_w ==
    \E t \in Threads :
        /\ writers[t].pc = "loaded"
        /\ writers' = [writers EXCEPT ![t].pc = "open"]
        /\ predictions' = <<>>
        /\ StoreVarsUnchanged

\* save_json_data: json.dump and the close of the file; save_prediction
\* returns
json_dump ==
    \E t \in Threads :
        /\ writers[t].pc = "open"
        /\ writers' = [writers EXCEPT
                          ![t].pc = "idle",
                          ![t].saved = Append(@, Head(writers[t].todo)),
                          ![t].todo = Tail(@),
                          ![t].data = <<>>]
        /\ predictions' = writers[t].data
        /\ StoreVarsUnchanged

NextStore == load_json_data \/ open_w \/ json_dump

SpecStore == InitStore /\ [][NextStore]_vars

(***************************************************************************)
(* AuthService of auth.py: store_otp and verify_otp. otp_store is a dict:  *)
(* a function whose domain holds the phones that have an OTP stored.       *)
(* `clock` is datetime.now(), in ticks.                                    *)
(***************************************************************************)
Phones == {"+50911", "+50922"}
Codes == {111111, 222222}
EXPIRES == 1           \* expires_minutes, in ticks
MAX_ATTEMPTS == 3

\* dict with the entry of one key removed, and with one entry set
Del(d, k) == [x \in DOMAIN d \ {k} |-> d[x]]
Put(d, k, v) == [x \in DOMAIN d \cup {k} |-> IF x = k THEN v ELSE d[x]]

\* verify_otp without the check of the attempts
verify_otp_NoLockout(store, phone, otp, now) ==
    IF phone \notin DOMAIN store
    THEN [otp_store |-> store, ok |-> FALSE,
          message |-> "No OTP found for this phone number"]
    ELSE IF now > store[phone].expires
    THEN [otp_store |-> Del(store, phone), ok |-> FALSE, message |-> "OTP has expired"]
    ELSE IF store[phone].otp # otp
    THEN [otp_store |-> [store EXCEPT ![phone].attempts = @ + 1], ok |-> FALSE,
          message |-> "Invalid OTP"]
    ELSE [otp_store |-> Del(store, phone), ok |-> TRUE,
          message |-> "OTP verified successfully"]

\* AuthService.verify_otp(phone, otp) at time now: the dict after the call
\* and the pair it returns
verify_otp(store, phone, otp, now) ==
    IF phone \notin DOMAIN store
    THEN [otp_store |-> store, ok |-> FALSE,
          message |-> "No OTP found for this phone number"]
    ELSE IF now > store[phone].expires
    THEN [otp_store |-> Del(store, phone), ok |-> FALSE, message |-> "OTP has expired"]
    ELSE IF store[phone].attempts >= MAX_ATTEMPTS
    THEN [otp_store |-> Del(store, phone), ok |-> FALSE,
          message |-> "Too many failed attempts"]
    ELSE IF store[phone].otp # otp
    THEN [otp_store |-> [store EXCEPT ![phone].attempts = @ + 1], ok |-> FALSE,
          message |-> "Invalid OTP"]
    ELSE [otp_store |-> Del(store, phone), ok |-> TRUE,
          message |-> "OTP verified successfully"]

\* auth_log.issued[n] follows the n-th stored OTP: how many wrong codes were
\* tried against it, how often it was accepted, and how many wrong codes
\* had been tried when it was; auth_log.last is the last call of the service,
\* with what verify_otp found stored when it was called
NoVerify == [op |-> "none"]

InitAuth ==
    /\ phase = "auth"
    /\ ml_models_dir = CHOOSE a \in ArtifactSets : ~a.present
    /\ health_predictor = NewPredictor
    /\ health_reports = <<>>
    /\ predictions = <<>>
    /\ sent_alerts = <<>>
    /\ users = <<>>
    /\ twilio_client = FALSE
    /\ scheduler_alive = FALSE
    /\ today = 0
    /\ clock = 0
    /\ high_risk_predictions = <<>>
    /\ sms_sent = <<>>
    /\ last = NoLast
    /\ env_fault = NoFault
    /\ outbreak_prob = 0
    /\ regressor_out = 0
    /\ point = NoPoint
    /\ PredictVarsAtRest
    /\ TrainVarsAtRest
    /\ FeatureVarsAtRest
    /\ otp_store = NoOtps
    /\ broadcast = NoProcess
    /\ writers = NoWriters
    /\ auth_otp_store = NoOtps
    /\ auth_log = [issued |-> <<>>, last |-> NoVerify]

AuthVarsUnchanged ==
    UNCHANGED <<phase, ml_models_dir, health_predictor, health_reports,
                predictions, sent_alerts, users, twilio_client, scheduler_alive,
                today, high_risk_predictions, sms_sent, last, env_fault,
                outbreak_prob, regressor_out, point, calls, artifact_files,
                trainer, loader, health_df, features_df, otp_store, broadcast,
                writers>>

\* AuthService.store_otp(phone, otp)
store_otp ==
    /\ phase = "auth"
    /\ Len(auth_log.issued) < MaxIssues
    /\ \E phone \in Phones, otp \in Codes :
         /\ auth_otp_store' = Put(auth_otp_store, phone,
                [otp |-> otp, expires |-> clock + EXPIRES, attempts |-> 0,
                 issue |-> Len(auth_log.issued) + 1])
         /\ auth_log' =
                [issued |-> Append(auth_log.issued,
                                   [phone |-> phone, otp |-> otp, failed |-> 0,
                                    accepted |-> 0, failed_when_accepted |-> 0]),
                 last |-> [op |-> "store", phone |-> phone]]
    /\ UNCHANGED clock
    /\ AuthVarsUnchanged

\* AuthService.verify_otp(phone, otp)
verify_otp_call ==
    /\ phase = "auth"
    /\ \E phone \in Phones, otp \in Codes :
         LET r == verify_otp(auth_otp_store, phone, otp, clock)
             stored == phone \in DOMAIN auth_otp_store
             n == IF stored THEN auth_otp_store[phone].issue ELSE 0
             wrong == stored /\ ~r.ok /\ auth_otp_store[phone].otp # otp
         IN  /\ auth_otp_store' = r.otp_store
             /\ auth_log' =
                  [issued |->
                      [k \in 1..Len(auth_log.issued) |->
                          IF k # n THEN auth_log.issued[k]
                          ELSE IF r.ok
                          THEN [auth_log.issued[k] EXCEPT
                                   !.accepted = @ + 1,
                                   !.failed_when_accepted = auth_log.issued[k].failed]
                          ELSE IF wrong /\ auth_log.issued[k].failed < MAX_ATTEMPTS
                          THEN [auth_log.issued[k] EXCEPT !.failed = @ + 1]
                          ELSE auth_log.issued[k]],
                   last |-> [op |-> "verify", phone |-> phone,
                             ok |-> r.ok, message |-> r.message,
                             stored |-> stored,
                             expired |-> stored /\ clock > auth_otp_store[phone].expires,
                             attempts |-> IF stored THEN auth_otp_store[phone].attempts
                                          ELSE 0,
                             matches |-> stored /\ auth_otp_store[phone].otp = otp]]
    /\ UNCHANGED clock
    /\ AuthVarsUnchanged

\* time passes
AuthTick ==
    /\ phase = "auth"
    /\ clock < MaxTime
    /\ clock' = clock + 1
    /\ UNCHANGED <<auth_otp_store, auth_log>>
    /\ AuthVarsUnchanged

NextAuth == store_otp \/ verify_otp_call \/ AuthTick

SpecAuth == InitAuth /\ [][NextAuth]_vars

(***************************************************************************)
(* Registration, verification and area alerts of app.py (SpecUsers).       *)
(* Flask serves every request in a thread of its own and the scheduler     *)
(* thread runs beside them, so an alert's loop over its recipients         *)
(* (time.sleep(0.1) after every SMS) interleaves with /register and        *)
(* /verify. `broadcast` is the alert being sent, `clock` is datetime.now() *)
(* in ticks, `last` the last request of a citizen, with the count of the   *)
(* /register requests and alerts so far.                                   *)
(***************************************************************************)
NoUser == [phone |-> "", area |-> "", verified |-> FALSE, active |-> FALSE]

\* DatabaseManager.find_user_by_phone(phone); NoUser is None
find_user_by_phone(us, phone) ==
    IF \E i \in 1..Len(us) : us[i].phone = phone
    THEN us[CHOOSE i \in 1..Len(us) : us[i].phone = phone /\ \A j \in 1..(i - 1) : us[j].phone # phone]
    ELSE NoUser

\* DatabaseManager.save_user(user_data): the record of the same phone is
\* replaced where it stands, a new phone is appended
save_user(us, user_data) ==
    IF \E i \in 1..Len(us) : us[i].phone = user_data.phone
    THEN LET existing_index == CHOOSE i \in 1..Len(us) :
                                  /\ us[i].phone = user_data.phone
                                  /\ \A j \in 1..(i - 1) : us[j].phone # user_data.phone
         IN  [us EXCEPT ![existing_index] = user_data]
    ELSE Append(us, user_data)

\* DatabaseManager.update_user_verified(phone)
update_user_verified(us, phone) ==
    IF \E i \in 1..Len(us) : us[i].phone = phone
    THEN LET user_index == CHOOSE i \in 1..Len(us) :
                              /\ us[i].phone = phone
                              /\ \A j \in 1..(i - 1) : us[j].phone # phone
         IN  [us EXCEPT ![user_index].verified = TRUE]
    ELSE us

\* users.json when the server starts: demo users are created verified, and
\* a record can carry active: false
UserFiles ==
    {<<>>,
     <<[phone |-> "+50911", area |-> areas[1], verified |-> TRUE, active |-> FALSE],
       [phone |-> "+50922", area |-> areas[1], verified |-> TRUE, active |-> TRUE]>>}

NoRequest == [op |-> "none", issued |-> 0]

InitUsers ==
    /\ phase = "users"
    /\ ml_models_dir = CHOOSE a \in ArtifactSets : ~a.present
    /\ health_predictor = NewPredictor
    /\ health_reports = <<>>
    /\ predictions = <<>>
    /\ sent_alerts = <<>>
    /\ users \in UserFiles
    /\ twilio_client = TRUE
    /\ scheduler_alive = TRUE
    /\ today = 0
    /\ clock = 0
    /\ high_risk_predictions = <<>>
    /\ sms_sent = <<>>
    /\ last = NoRequest
    /\ env_fault = NoFault
    /\ outbreak_prob = 0
    /\ regressor_out = 0
    /\ point = NoPoint
    /\ PredictVarsAtRest
    /\ TrainVarsAtRest
    /\ FeatureVarsAtRest
    /\ otp_store = NoOtps
    /\ broadcast = NoProcess
    /\ writers = NoWriters
    /\ auth_otp_store = NoOtps
    /\ auth_log = NoLog

UsersVarsUnchanged ==
    UNCHANGED <<phase, ml_models_dir, health_predictor, health_reports,
                predictions, twilio_client, scheduler_alive, today,
                high_risk_predictions, env_fault, outbreak_prob, regressor_out,
                point, calls, artifact_files, trainer, loader, health_df,
                features_df, auth_otp_store, auth_log, writers>>

\* POST /register {name, phone, area}
register_user ==
    /\ phase = "users"
    /\ last.issued < MaxIssues
    /\ \E phone \in Phones, area \in Range(areas), otp \in Codes :
         LET user_data == [phone |-> phone, area |-> area,
                           verified |-> FALSE, active |-> TRUE]
         IN  /\ users' = save_user(users, user_data)
             /\ sms_sent' = IF send_sms(twilio_client)
                            THEN Append(sms_sent, [kind |-> "otp", phone |-> phone])
                            ELSE sms_sent
             /\ otp_store' = Put(otp_store, phone,
                                 [otp |-> otp, expires |-> clock + EXPIRES])
             /\ last' = [op |-> "register", phone |-> phone,
                         issued |-> last.issued + 1]
    /\ UNCHANGED <<clock, broadcast, sent_alerts>>
    /\ UsersVarsUnchanged

\* POST /verify {phone, otp}
verify_otp_route ==
    /\ phase = "users"
    /\ \E phone \in Phones, otp \in Codes :
         LET stored == phone \in DOMAIN otp_store
             good == /\ stored
                     /\ otp_store[phone].otp = otp
                     /\ clock < otp_store[phone].expires
             updated == update_user_verified(users, phone)
             user == find_user_by_phone(updated, phone)
         IN  /\ users' = IF good THEN updated ELSE users
             /\ sms_sent' = IF good /\ user # NoUser /\ send_sms(twilio_client)
                            THEN Append(sms_sent, [kind |-> "welcome", phone |-> phone])
                            ELSE sms_sent
             /\ otp_store' = IF good /\ user # NoUser THEN Del(otp_store, phone)
                             ELSE otp_store
             /\ last' = [op |-> "verify", phone |-> phone,
                         verified |-> good /\ user # NoUser,
                         stored |-> stored,
                         matches |-> stored /\ otp_store[phone].otp = otp,
                         expired |-> stored /\ ~(clock < otp_store[phone].expires),
                         issued |-> last.issued]
    /\ UNCHANGED <<clock, broadcast, sent_alerts>>
    /\ UsersVarsUnchanged

\* the lookup of the recipients: POST /broadcast {alert_type: health, area,
\* condition} of a staff user, or the auto-alert loop of a scan for one
\* trigger entry (which calls send_health_alert_to_users only for a
\* non-empty list)
broadcast_alert ==
    /\ phase = "users"
    /\ broadcast.pc = "idle"
    /\ last.issued < MaxIssues
    /\ \E area \in Range(areas), ctx \in {RequestCtx, ThreadCtx} :
         LET recipients == get_users_by_area(users, area, TRUE)
         IN  /\ ~ctx.in_request => Len(recipients) > 0
             /\ broadcast' = [pc |-> "sending", area |-> area,
                              condition |-> conditions[1], ctx |-> ctx,
                              users |-> recipients, looked_up |-> users,
                              i |-> 1, sent_count |-> 0]
    /\ last' = [last EXCEPT !.issued = @ + 1]
    /\ UNCHANGED <<clock, users, otp_store, sms_sent, sent_alerts>>
    /\ UsersVarsUnchanged

\* one turn of the loop of send_health_alert_to_users
send_to_user ==
    /\ phase = "users"
    /\ broadcast.pc = "sending"
    /\ broadcast.i <= Len(broadcast.users)
    /\ LET user == broadcast.users[broadcast.i]
           ok == send_sms(twilio_client)
       IN  /\ sms_sent' = IF ok
                          THEN Append(sms_sent,
                                 [kind |-> "alert", phone |-> user.phone,
                                  area |-> broadcast.area,
                                  condition |-> broadcast.condition,
                                  looked_up |->
                                      find_user_by_phone(broadcast.looked_up, user.phone),
                                  at_send |-> find_user_by_phone(users, user.phone)])
                          ELSE sms_sent
           /\ broadcast' = [broadcast EXCEPT
                               !.i = @ + 1,
                               !.sent_count = IF ok THEN @ + 1 ELSE @]
    /\ UNCHANGED <<clock, users, otp_store, sent_alerts, last>>
    /\ UsersVarsUnchanged

\* the end of send_health_alert_to_users: the alert record, whose fields
\* read flask.session (RuntimeError outside a request, nothing saved)
log_alert ==
    /\ phase = "users"
    /\ broadcast.pc = "sending"
    /\ broadcast.i > Len(broadcast.users)
    /\ sent_alerts' = IF broadcast.ctx.in_request
                      THEN Append(sent_alerts,
                             [alert_type |-> "health_outbreak", area |-> broadcast.area,
                              condition |-> broadcast.condition, cases |-> 0,
                              recipients_count |-> broadcast.sent_count,
                              timestamp |-> clock,
                              triggered_by |-> broadcast.ctx.staff_username])
                      ELSE sent_alerts
    /\ broadcast' = NoProcess
    /\ UNCHANGED <<clock, users, otp_store, sms_sent, last>>
    /\ UsersVarsUnchanged

\* time passes
UsersTick ==
    /\ phase = "users"
    /\ clock < MaxTime
    /\ clock' = clock + 1
    /\ UNCHANGED <<users, otp_store, broadcast, sms_sent, sent_alerts, last>>
    /\ UsersVarsUnchanged

NextUsers ==
    \/ register_user
    \/ verify_otp_route
    \/ broadcast_alert
    \/ send_to_user
    \/ log_alert
    \/ UsersTick

SpecUsers == InitUsers /\ [][NextUsers]_vars

(***************************************************************************)
(* Properties                                                              *)
(***************************************************************************)
\* the records of a store with the key (area, date, type, condition)
KeyMatches(store, pair, date) ==
    {i \in 1..Len(store) : /\ store[i].area = pair.area
                           /\ store[i].condition = pair.condition
                           /\ store[i].date = date
                           /\ store[i].type = "health"}

\* the encoders of predictor hp know the area and the condition of the pair
Known(hp, pair) ==
    /\ pair.area \in Range(hp.label_encoders.area)
    /\ pair.condition \in Range(hp.label_encoders.condition)

\* the handler that ran last was a full scan in which every pair predicted
AllPredicted ==
    /\ last.op \in ScanOps
    /\ health_predictor.is_trained
    /\ last.fault.failed = {}
    /\ \A pair \in PairSet : Known(health_predictor, pair)

\* the failures that end the try block of a pair with an exception
Raising == {"predict", "save_raises"}

\* a step that is one run of run_predictions_for_all_areas()
ScanStep == last'.at = clock + 1 /\ last'.op \in ScanOps

\* a step that is one POST /predictions/generate with an area
GenerateAreaStep == last'.at = clock + 1 /\ last'.op = "generate_area"

\* C1: after a full scan in which every pair predicted, the store holds one
\* record per scanned (area, condition) pair for the scan date; no save of
\* one pair has replaced or removed the record of another pair.
C1_OneRecordPerPair ==
    AllPredicted =>
        \A pair \in PairSet : Cardinality(KeyMatches(predictions, pair, last.date)) = 1

\* C2: when the scan has run twice on one day, the store holds exactly one
\* record with the key of each (area, condition), and it is the record of
\* the latest run.
C2_IdempotentUpsert ==
    (AllPredicted /\ last.rerun) =>
        \A pair \in PairSet :
            /\ Cardinality(KeyMatches(predictions, pair, last.date)) = 1
            /\ \A i \in KeyMatches(predictions, pair, last.date) :
                   predictions[i].timestamp = last.at

\* C3: whatever pairs fail in a scan, every other pair is still visited and
\* has its record of this scan persisted.
C3_FailureIsolation ==
    (last.op \in ScanOps /\ health_predictor.is_trained) =>
        \A pair \in PairSet :
            (Known(health_predictor, pair) /\ pair \notin last.fault.failed) =>
                \E i \in KeyMatches(predictions, pair, last.date) :
                    predictions[i].timestamp = last.at

\* the verified active users of an area
Eligible(area) ==
    {i \in 1..Len(users) : users[i].area = area /\ users[i].active /\ users[i].verified}

Entries(trig, pair, date) ==
    {k \in 1..Len(trig) : /\ trig[k].area = pair.area
                          /\ trig[k].condition = pair.condition
                          /\ trig[k].date = date}

C6_SamePerPairLogic ==
    [][(GenerateAreaStep /\ health_predictor.is_trained) =>
         LET hp == health_predictor
             pairOf(j) == [area |-> last'.area, condition |-> conditions[j]]
             saved == {j \in 1..Len(conditions) :
                         Known(hp, pairOf(j)) /\ pairOf(j) \notin env_fault.failed}
             scored == {j \in 1..Len(conditions) :
                          /\ Known(hp, pairOf(j))
                          /\ ~(pairOf(j) \in env_fault.failed /\ env_fault.kind \in Raising)}
             prob(j, d) ==
                 predict_proba(Transform(hp.label_encoders.area, pairOf(j).area),
                               Transform(hp.label_encoders.condition, pairOf(j).condition),
                               today + d,
                               get_historical_health_data(health_reports, pairOf(j).area,
                                   pairOf(j).condition).recent_cases_7d)
         IN  /\ saved # {} =>
                   LET j == CHOOSE m \in saved : \A n \in saved : n <= m
                   IN  \E i \in KeyMatches(predictions', pairOf(j), today) :
                           predictions'[i].timestamp = clock'
             /\ \A j \in scored, d \in 1..days_ahead :
                   prob(j, d) > 70 =>
                       Entries(high_risk_predictions', pairOf(j), today + d) # {}
    ]_vars

\* C7 as stated: a request for predictions made while the predictor is not
\* trained is answered as a failure, and nothing is persisted or returned.
C7_UntrainedReported ==
    (last.op \in {"generate_area", "generate_all"} /\ ~health_predictor.is_trained) =>
        (~last.success /\ last.results = <<>> /\ predictions = <<>>)

C9_RiskLevel ==
    phase = "risk_scored" =>
        /\ point.outbreak_probability = outbreak_prob
        /\ (point.risk_level = "HIGH") <=> (outbreak_prob > 70)
        /\ (point.risk_level = "MEDIUM") <=> (outbreak_prob > 40 /\ outbreak_prob <= 70)
        /\ (point.risk_level = "LOW") <=> (outbreak_prob <= 40)

\* a probability of exactly 0.7 has been labelled
C9_Witness ==
    /\ phase = "risk_scored"
    /\ outbreak_prob = 70
    /\ point.risk_level = "MEDIUM"

\* C10: predicted_cases is a non-negative integer for every regressor
\* output: 0 for an output below 1, the integer part otherwise.
C10_NonNegativeCases ==
    phase = "risk_scored" =>
        /\ point.predicted_cases \in Nat
        /\ regressor_out <= 0 => point.predicted_cases = 0
        /\ regressor_out > 0 => /\ 2 * point.predicted_cases <= regressor_out
                                /\ regressor_out < 2 * point.predicted_cases + 2

\* a negative regressor output has been turned into a point
C10_Witness ==
    /\ phase = "risk_scored"
    /\ regressor_out < 0
    /\ point.predicted_cases = 0

\* the entries of calls made with a trained predictor that knows the labels
KnownCalls ==
    {i \in 1..Len(calls) :
        Known(health_predictor, [area |-> calls[i].area, condition |-> calls[i].condition])}

\* C11 as stated: a call with a trained model and known labels returns
\* exactly days_ahead points, the k-th dated k days after the day of the
\* call, whatever the time at which each day's point is computed.
C11_ConsecutiveDays ==
    \A i \in KnownCalls :
        /\ calls[i].result.kind = "list"
        /\ Len(calls[i].result.points) = days_ahead
        /\ \A k \in 1..Len(calls[i].result.points) :
               calls[i].result.points[k].date = calls[i].called_on + k

C13_SameTrainingRun ==
    (phase = "train" /\ health_predictor.is_trained) =>
        /\ \A k \in 1..Len(model_files) : loader.from[k] # 0
        /\ \A k, m \in 1..Len(model_files) : loader.from[k] = loader.from[m]

\* C14: an error raised while training or while loading reaches the caller
\* of train_all_models or load_ml_models as that error.
C14_ErrorsPropagate ==
    /\ (trainer.pc = "returned" /\ trainer.error # "none") => trainer.raised
    /\ (loader.pc = "returned" /\ loader.error # "none") => loader.raised

\* the area column or the condition column of df holds fewer than two
\* distinct values
Degenerate(df) ==
    \/ Cardinality({df[i].area : i \in 1..Len(df)}) < 2
    \/ Cardinality({df[i].condition : i \in 1..Len(df)}) < 2

\* C15: training on an empty set, or on a set whose area or condition
\* column has a single distinct value, ends with a reported error, leaves
\* the predictor not trained and writes no artifact.
C15_DegenerateFails ==
    (trainer.pc \in {"saving", "returned", "killed"} /\ Degenerate(trainer.df)) =>
        /\ trainer.error # "none"
        /\ ~trainer.hp.is_trained
        /\ \A k \in 1..Len(model_files) : artifact_files[k].run # trainer.run

\* load_ml_models() has loaded the five files the last training run wrote,
\* and that run has returned without error
RoundTrip ==
    /\ phase = "train"
    /\ trainer.pc = "returned" /\ trainer.error = "none"
    /\ loader.pc = "returned" /\ loader.error = "none"
    /\ \A k \in 1..Len(model_files) : loader.from[k] = trainer.run

FeaturesDone == phase = "features_done"

\* the report a feature row was built from
ReportOf(row) ==
    [area |-> row.area, condition |-> row.condition, date |-> row.date,
     cases |-> row.cases]

\* the rows of frame for one pair, in the frame's order
GroupOf(frame, area, condition) ==
    SelectSeq(frame, LAMBDA r : r.area = area /\ r.condition = condition)

\* the pairs that have a row in frame
PairsOf(frame) ==
    {[area |-> frame[i].area, condition |-> frame[i].condition] :
        i \in 1..Len(frame)}

\* how many rows of frame are the report r
CountIn(frame, r) == Cardinality({i \in 1..Len(frame) : frame[i] = r})

\* C17: prepare_features returns exactly one feature row per input row, for
\* every input: it does not raise, the output has the input's length, and
\* every report is the source of as many feature rows as the input has rows
\* with that report, several rows of one group on one date included.
C17_OneRowPerInput ==
    FeaturesDone =>
        /\ ~features_df.raised
        /\ Len(features_df.rows) = Len(health_df)
        /\ \A i \in 1..Len(health_df) :
              CountIn([j \in 1..Len(features_df.rows) |->
                          ReportOf(features_df.rows[j])], health_df[i])
                 = CountIn(health_df, health_df[i])

\* C18: in every (area, condition) group the rows are in ascending date
\* order, and row i has cases_lag_7 equal to the cases of row i - 7 of the
\* group and cases_lag_14 equal to the cases of row i - 14, each 0 when the
\* group has no such row.
C18_Lags ==
    (FeaturesDone /\ ~features_df.raised) =>
        \A g \in PairsOf(features_df.rows) :
            LET group == GroupOf(features_df.rows, g.area, g.condition)
            IN  \A i \in 1..Len(group) :
                   /\ i > 1 => group[i - 1].date <= group[i].date
                   /\ group[i].cases_lag_7
                        = (IF i - LAG_7 >= 1 THEN group[i - LAG_7].cases ELSE 0)
                   /\ group[i].cases_lag_14
                        = (IF i - LAG_14 >= 1 THEN group[i - LAG_14].cases ELSE 0)

\* a group long enough for a lag of 14 rows that is not 0, and a group too
\* short for any lag
C18_Witness ==
    /\ FeaturesDone
    /\ ~features_df.raised
    /\ \E i \in 1..Len(features_df.rows) :
          /\ features_df.rows[i].cases_lag_14 > 0
          /\ features_df.rows[i].cases_lag_7 > 0
          /\ features_df.rows[i].cases_lag_7 # features_df.rows[i].cases_lag_14
    /\ \E g \in PairsOf(features_df.rows) :
          Len(GroupOf(features_df.rows, g.area, g.condition)) < LAG_7

\* C19: in every group, cases_rolling_7 of row i is the mean of cases over
\* the trailing window of at most 7 rows that ends at row i; the window is
\* never shorter than 1 row, the first row's window being that row alone.
\* Means are in units of 1/MEAN_UNIT.
C19_TrailingMean ==
    (FeaturesDone /\ ~features_df.raised) =>
        \A g \in PairsOf(features_df.rows) :
            LET group == GroupOf(features_df.rows, g.area, g.condition)
            IN  \A i \in 1..Len(group) :
                   LET first == Max(1, i - ROLLING_WINDOW + 1)
                       n == i - first + 1
                       window == [j \in 1..n |-> group[first + j - 1].cases]
                   IN  /\ n >= MIN_PERIODS
                       /\ n <= ROLLING_WINDOW
                       /\ group[i].cases_rolling_7
                            = (SumSeq(window) * MEAN_UNIT) \div n

\* a group with more rows than the window, so that the window has left the
\* group's first rows behind, and whose mean there differs from the mean of
\* all the rows so far
C19_Witness ==
    /\ FeaturesDone
    /\ ~features_df.raised
    /\ \E g \in PairsOf(features_df.rows) :
          LET group == GroupOf(features_df.rows, g.area, g.condition)
          IN  \E i \in 1..Len(group) :
                 /\ i > ROLLING_WINDOW
                 /\ group[i].cases_rolling_7
                      # (SumSeq([j \in 1..i |-> group[j].cases]) * MEAN_UNIT) \div i
                 /\ group[1].cases_rolling_7 = group[1].cases * MEAN_UNIT

\* the lag and rolling columns of a frame's rows
LagRolling(frame) ==
    [i \in 1..Len(frame) |->
        [date |-> frame[i].date, cases |-> frame[i].cases,
         cases_lag_7 |-> frame[i].cases_lag_7,
         cases_lag_14 |-> frame[i].cases_lag_14,
         cases_rolling_7 |-> frame[i].cases_rolling_7]]

\* C20: the lag and rolling features of a group are computed within that
\* group alone: they are the ones prepare_features computes for the frame
\* that holds only the group's reports, whatever the other groups hold.
C20_PerGroup ==
    (FeaturesDone /\ ~features_df.raised) =>
        \A g \in PairsOf(health_df) :
            LagRolling(GroupOf(features_df.rows, g.area, g.condition))
              = LagRolling(prepare_features(
                               GroupOf(health_df, g.area, g.condition)).rows)

\* two groups whose reports are interleaved in the input, one of them with
\* lags that are not 0
C20_Witness ==
    /\ FeaturesDone
    /\ ~features_df.raised
    /\ Cardinality(PairsOf(health_df)) = 2
    /\ \E i \in 2..Len(health_df) - 1 :
          /\ health_df[i].area # health_df[1].area
                \/ health_df[i].condition # health_df[1].condition
          /\ health_df[Len(health_df)].area = health_df[1].area
          /\ health_df[Len(health_df)].condition = health_df[1].condition
    /\ \E i \in 1..Len(features_df.rows) : features_df.rows[i].cases_lag_7 > 0

(***************************************************************************)
(* Training rows against inference rows (SpecRows)                         *)
(***************************************************************************)
\* the calendar columns of a feature row
CalendarOf(row) ==
    [day_of_year |-> row.day_of_year, week_of_year |-> row.week_of_year,
     is_rainy_season |-> row.is_rainy_season]

C22_HistoryHeldConstant ==
    phase = "rows_predicted" =>
        /\ \A i \in 1..Len(calls[1].rows) :
              LET row == calls[1].rows[i].features
              IN  /\ row.cases_lag_7 = calls[1].historical_data.recent_cases_7d
                  /\ row.cases_lag_14 = calls[1].historical_data.recent_cases_14d
                  /\ row.cases_rolling_7 = calls[1].historical_data.avg_cases_7d
        /\ calls[1].historical_data_after = calls[1].historical_data

\* a call that made every day's row, whose first point predicts other cases
\* than the summary's recent_cases_7d
C22_Witness ==
    /\ phase = "rows_predicted"
    /\ Len(calls[1].rows) = days_ahead
    /\ calls[1].historical_data.recent_cases_7d > 0
    /\ calls[1].rows[1].point.predicted_cases
          # calls[1].historical_data.recent_cases_7d

\* C23: the vector given to the scaler and the forests holds exactly the
\* entries named by the stored feature_cols, in the stored order, and that
\* order is the column order of the matrix X of train().
C23_FeatureColsOrder ==
    phase = "rows_predicted" =>
        /\ health_predictor.feature_cols = features_df.X.columns
        /\ \A i \in 1..Len(calls[1].rows) :
              LET row == calls[1].rows[i]
              IN  /\ Len(row.X_pred) = Len(health_predictor.feature_cols)
                  /\ \A k \in 1..Len(row.X_pred) :
                        row.X_pred[k] = row.features[health_predictor.feature_cols[k]]

\* a vector whose first and last entries differ, next to a training matrix
\* with a row for each csv row
C23_Witness ==
    /\ phase = "rows_predicted"
    /\ Len(features_df.X.values) = Len(health_df)
    /\ \E i \in 1..Len(calls[1].rows) :
          LET x == calls[1].rows[i].X_pred
          IN  Len(x) = Len(FeatureCols) /\ x[1] # x[Len(x)]

(***************************************************************************)
(* The label encoders over several calls (SpecEncoders)                    *)
(***************************************************************************)
\* the labels of one column of a frame
LabelsOf(df, column) == {df[i][column] : i \in 1..Len(df)}

\* the ids a call's feature rows give to the labels of a column
IdsOf(rows, column, encoded) ==
    {<<rows[i][column], rows[i][encoded]>> : i \in 1..Len(rows)}

\* every label of the frame was in the frame of the first call
SeenAtFirstFit(df) ==
    /\ LabelsOf(df, "area") \subseteq LabelsOf(calls[1].df, "area")
    /\ LabelsOf(df, "condition") \subseteq LabelsOf(calls[1].df, "condition")

\* C24: once the first call has fitted the encoders, a later call gives each
\* label the id the first call gave it, and a later call whose frame holds
\* a label that the frame of the first call did not hold raises (ValueError,
\* unseen labels) and gives no label any id.
C24_StableStrictEncoding ==
    \A j \in 2..Len(calls) :
        /\ ~SeenAtFirstFit(calls[j].df) =>
              /\ calls[j].result.raised
              /\ calls[j].result.error = "ValueError: unseen labels"
              /\ calls[j].result.rows = <<>>
        /\ \A column \in {"area", "condition"} :
              \A a \in IdsOf(calls[j].result.rows, column, column \o "_encoded"),
                 b \in IdsOf(calls[1].result.rows, column, column \o "_encoded") :
                    a[1] = b[1] => a[2] = b[2]
        /\ calls[j].result.label_encoders = calls[1].result.label_encoders

\* a later call that encoded a label whose id is not 0, after a later call
\* or a first call of which it had not seen a label
C24_Witness ==
    /\ Len(calls) >= 2
    /\ ~calls[1].result.raised
    /\ \E j \in 2..Len(calls) :
          /\ ~calls[j].result.raised
          /\ \E i \in 1..Len(calls[j].result.rows) :
                calls[j].result.rows[i].area_encoded > 0
          /\ LabelsOf(calls[j].df, "area") # LabelsOf(calls[1].df, "area")

(***************************************************************************)
(* Concurrent saves (SpecStore)                                            *)
(***************************************************************************)
\* both threads have made all their saves
WritersDone ==
    \A t \in Threads : writers[t].pc = "idle" /\ writers[t].todo = <<>>

\* C25: when the scan and a staff request save predictions at overlapping
\* times, every record either of them saved is in the store afterwards, it
\* or the later record that replaced it under save_prediction's key (area,
\* date, type): no save is lost to the other writer's load-modify-write.
C25_NoSaveLost ==
    WritersDone =>
        \A t \in Threads : \A i \in 1..Len(writers[t].saved) :
            \E j \in 1..Len(predictions) :
                /\ predictions[j].area = writers[t].saved[i].area
                /\ predictions[j].date = writers[t].saved[i].date
                /\ predictions[j].type = writers[t].saved[i].type

(***************************************************************************)
(* The scheduler and the auto-alerts of a scan (Spec)                      *)
(***************************************************************************)
\* C26: once started, the scheduler keeps running: no step, a scheduled scan
\* that raises included, ends the loop of schedule_predictions(), so the
\* next periodic scan can still happen.
C26_SchedulerKeepsRunning == [][scheduler_alive => scheduler_alive']_vars

\* C27: in one scan a user is sent at most one auto-alert per (area,
\* condition) pair, however many of the pair's daily points are HIGH.
C27_OneAlertPerPair ==
    last.op \in ScanOps =>
        \A i, j \in 1..Len(sms_sent) :
            (/\ sms_sent[i].phone = sms_sent[j].phone
             /\ sms_sent[i].area = sms_sent[j].area
             /\ sms_sent[i].condition = sms_sent[j].condition) => i = j

(***************************************************************************)
(* AuthService's one-time passwords (SpecAuth)                             *)
(***************************************************************************)
\* C29: verify_otp accepts a code only when an OTP is stored for the phone,
\* the time is not past its expiry, fewer than 3 wrong codes have been tried
\* against it and the code is the stored one; the call that accepts, that
\* finds the OTP expired or that finds it locked removes it; no stored OTP
\* is accepted twice, and none is accepted after 3 wrong codes.
C29_OtpAcceptance ==
    /\ auth_log.last.op = "verify" =>
          LET v == auth_log.last
          IN  /\ v.ok => /\ v.stored
                         /\ ~v.expired
                         /\ v.attempts < MAX_ATTEMPTS
                         /\ v.matches
              /\ (v.ok \/ v.expired \/ (v.stored /\ v.attempts >= MAX_ATTEMPTS))
                    => v.phone \notin DOMAIN auth_otp_store
    /\ \A n \in 1..Len(auth_log.issued) :
          /\ auth_log.issued[n].accepted <= 1
          /\ auth_log.issued[n].accepted = 1
                => auth_log.issued[n].failed_when_accepted < MAX_ATTEMPTS

\* the right code refused because 3 wrong codes had been tried, after an
\* earlier OTP was accepted
C29_Witness ==
    /\ auth_log.last.op = "verify"
    /\ auth_log.last.message = "Too many failed attempts"
    /\ auth_log.last.matches
    /\ \E n \in 1..Len(auth_log.issued) : auth_log.issued[n].accepted = 1

(***************************************************************************)
(* Area alerts and verification (SpecUsers)                                *)
(***************************************************************************)
AlertSms == {i \in 1..Len(sms_sent) : sms_sent[i].kind = "alert"}

Verified(us, phone) == find_user_by_phone(us, phone).verified

\* C30: a record becomes verified only by a /verify request that found the
\* phone's OTP stored, matching and unexpired, and no request turns a
\* verified record unverified or changes its area.
C30_StickyEarned ==
    [][phase = "users" =>
        \A phone \in Phones :
            /\ (~Verified(users, phone) /\ Verified(users', phone))
                  => /\ last'.op = "verify"
                     /\ last'.phone = phone
                     /\ last'.stored /\ last'.matches /\ ~last'.expired
            /\ Verified(users, phone)
                  => /\ Verified(users', phone)
                     /\ find_user_by_phone(users', phone).area
                           = find_user_by_phone(users, phone).area]_vars

====
